---- MODULE Spec2Model ----
(***************************************************************************)
(* Library scanner and song-identity resolver of abc-music-manager.        *)
(*                                                                         *)
(* The model covers scanning/scanner.py (run_scan and its helpers), the    *)
(* catalog writers of db/song_repo.py, db/instrument.py, db/play_log.py,   *)
(* db/setlist_repo.py and db/song_layout_repo.py, the root configuration   *)
(* of db/folder_rule.py and the tables of db/schema.py.                    *)
(*                                                                         *)
(* Text is a sequence of one-character strings, paths are sequences of     *)
(* path segments.  created_at / updated_at columns are left out: they hold *)
(* wall-clock values and no modelled operation reads them.                 *)
(***************************************************************************)
EXTENDS Integers, Sequences, FiniteSets, TLC

\* Optional values: None, or Some(v).
None == {}

Some(v) == {v}

Get(o) == CHOOSE v \in o : TRUE

(***************************************************************************)
(* Bounds of the model.                                                    *)
(***************************************************************************)
MaxScans == 2
MaxFsOps == 1
MaxUserOps == 1

(***************************************************************************)
(* Text helpers.                                                           *)
(***************************************************************************)
Whitespace == {" ", "\t"}

\* str.lower() of Python: Unicode aware.
PyLowerChar(ch) ==
  CASE ch = "R" -> "r"
    [] ch = "F" -> "f"
    [] ch = "É" -> "é"
    [] OTHER -> ch

\* LOWER() of SQLite: ASCII letters only.
SqlLowerChar(ch) ==
  CASE ch = "R" -> "r"
    [] ch = "F" -> "f"
    [] OTHER -> ch

PyLower(s) == [k \in 1..Len(s) |-> PyLowerChar(s[k])]

SqlLower(s) == [k \in 1..Len(s) |-> SqlLowerChar(s[k])]

RECURSIVE StripLeft(_, _)
StripLeft(s, drop) ==
  IF s # <<>> /\ Head(s) \in drop THEN StripLeft(Tail(s), drop) ELSE s

RECURSIVE StripRight(_, _)
StripRight(s, drop) ==
  IF s # <<>> /\ s[Len(s)] \in drop
    THEN StripRight(SubSeq(s, 1, Len(s) - 1), drop) ELSE s

\* str.strip() of Python removes every leading and trailing whitespace.
PyStrip(s) == StripRight(StripLeft(s, Whitespace), Whitespace)

\* TRIM() of SQLite removes spaces only.
SqlTrim(s) == StripRight(StripLeft(s, {" "}), {" "})

\* (s or "") of Python for an optional text.
OrEmpty(s) == IF s = None THEN <<>> ELSE Get(s)

Max(S) == CHOOSE x \in S : \A y \in S : y <= x

\* lastrowid of an INSERT into a table with an INTEGER PRIMARY KEY column and
\* no AUTOINCREMENT: one more than the largest id in use.
NextId(rows) == IF rows = {} THEN 1 ELSE Max({r.id : r \in rows}) + 1

(***************************************************************************)
(* Parsed metadata.                                                        *)
(***************************************************************************)
PartInfo(n, name, madeFor) ==
  [part_number |-> n, part_name |-> name, made_for |-> madeFor]

ParsedSong(title, composers, dur, transcriber, exportTs, parts) ==
  [title |-> title, composers |-> composers, duration_seconds |-> dur,
   transcriber |-> transcriber, export_timestamp |-> exportTs, parts |-> parts]

(***************************************************************************)
(* Parser: parsing/abc_parser.py.  A file content is the sequence of its   *)
(* lines (str.splitlines), a line the sequence of its characters.          *)
(***************************************************************************)
LowerLetters ==
  {"a", "b", "c", "d", "e", "f", "g", "h", "i", "j", "k", "l", "m", "n", "o",
   "p", "q", "r", "s", "t", "u", "v", "w", "x", "y", "z"}

Digits == {"0", "1", "2", "3", "4", "5", "6", "7", "8", "9"}

DigitValue(ch) ==
  CASE ch = "0" -> 0 [] ch = "1" -> 1 [] ch = "2" -> 2 [] ch = "3" -> 3
    [] ch = "4" -> 4 [] ch = "5" -> 5 [] ch = "6" -> 6 [] ch = "7" -> 7
    [] ch = "8" -> 8 [] ch = "9" -> 9

RECURSIVE DecimalValue(_)
DecimalValue(ds) ==
  IF ds = <<>> THEN 0
  ELSE 10 * DecimalValue(SubSeq(ds, 1, Len(ds) - 1)) + DigitValue(ds[Len(ds)])

\* The number of characters of s from position k on that are in set.
RECURSIVE RunLength(_, _, _)
RunLength(s, k, set) ==
  IF k <= Len(s) /\ s[k] \in set THEN 1 + RunLength(s, k + 1, set) ELSE 0

From(s, k) == SubSeq(s, k, Len(s))

StartsWith(s, pre) == Len(pre) <= Len(s) /\ SubSeq(s, 1, Len(pre)) = pre

\* int(text) of Python: whitespace around, an optional sign, decimal digits;
\* None stands for ValueError.
PyInt(text) ==
  LET t == PyStrip(text)
      signed == t # <<>> /\ t[1] \in {"+", "-"}
      ds == IF signed THEN Tail(t) ELSE t
  IN  IF ds # <<>> /\ RunLength(ds, 1, Digits) = Len(ds)
        THEN Some(IF signed /\ t[1] = "-" THEN 0 - DecimalValue(ds)
                                           ELSE DecimalValue(ds))
        ELSE None

\* str.split(sep) of Python for a one-character separator.
RECURSIVE Split(_, _)
Split(s, sep) ==
  LET n == RunLength(s, 1, {ch \in {s[k] : k \in 1..Len(s)} : ch # sep})
  IN  IF n = Len(s) THEN <<s>>
      ELSE <<SubSeq(s, 1, n)>> \o Split(From(s, n + 2), sep)

SongTitleTag == <<"s", "o", "n", "g", "-", "t", "i", "t", "l", "e">>
SongComposerTag == <<"s", "o", "n", "g", "-", "c", "o", "m", "p", "o", "s", "e", "r">>
SongTranscriberTag ==
  <<"s", "o", "n", "g", "-", "t", "r", "a", "n", "s", "c", "r", "i", "b", "e", "r">>
SongDurationTag == <<"s", "o", "n", "g", "-", "d", "u", "r", "a", "t", "i", "o", "n">>
ExportTimestampTag ==
  <<"e", "x", "p", "o", "r", "t", "-", "t", "i", "m", "e", "s", "t", "a", "m", "p">>
PartNameTag == <<"p", "a", "r", "t", "-", "n", "a", "m", "e">>
MadeForTag == <<"m", "a", "d", "e", "-", "f", "o", "r">>

UnknownText == <<"U", "n", "k", "n", "o", "w", "n">>

\* The end of the longest [a-z]+(?:-[a-z]+)* at the start of s, n characters
\* of which are matched already.
RECURSIVE TagNameEnd(_, _)
TagNameEnd(s, n) ==
  IF n + 2 <= Len(s) /\ s[n + 1] = "-" /\ s[n + 2] \in LowerLetters
    THEN TagNameEnd(s, n + 1 + RunLength(s, n + 2, LowerLetters))
    ELSE n

\* _MAESTRO_TAG.match on a stripped line: None, or the two groups.
MaestroMatch(stripped) ==
  LET rest == From(stripped, 3)
      first == RunLength(rest, 1, LowerLetters)
      n == TagNameEnd(rest, first)
  IN  IF StartsWith(stripped, <<"%", "%">>) /\ first > 0
        THEN Some([name |-> SubSeq(rest, 1, n),
                   value |-> StripLeft(From(rest, n + 1), Whitespace)])
        ELSE None

\* A plausible slip: sixty seconds are accepted.
_parse_mm_ss_sixty(value) ==
  LET v == PyStrip(value)
      parts == Split(v, ":")
  IN  IF v = <<>> \/ Len(parts) # 2
        THEN None
        ELSE LET m == PyInt(PyStrip(parts[1]))
                 sec == PyInt(PyStrip(parts[2]))
             IN  IF m # None /\ sec # None /\ Get(m) >= 0
                      /\ 0 <= Get(sec) /\ Get(sec) <= 60
                   THEN Some(Get(m) * 60 + Get(sec))
                   ELSE None

_parse_mm_ss(value) ==
  LET v == PyStrip(value)
      parts == Split(v, ":")
  IN  IF v = <<>> \/ Len(parts) # 2
        THEN None
        ELSE LET m == PyInt(PyStrip(parts[1]))
                 sec == PyInt(PyStrip(parts[2]))
             IN  IF m # None /\ sec # None /\ Get(m) >= 0
                      /\ 0 <= Get(sec) /\ Get(sec) < 60
                   THEN Some(Get(m) * 60 + Get(sec))
                   ELSE None

_get_maestro_value(tags, key) ==
  IF key \in DOMAIN tags /\ tags[key] # <<>> THEN Some(PyStrip(tags[key])) ELSE None

\* A plausible slip: every T:, C: and Z: line overwrites the value found before.
RECURSIVE HeadersFrom_last_wins(_, _, _)
HeadersFrom_last_wins(lines, k, acc) ==
  IF k > Len(lines) THEN acc
  ELSE
    LET line_stripped == PyStrip(lines[k])
        m == MaestroMatch(line_stripped)
        value == PyStrip(From(line_stripped, 3))
    IN  IF line_stripped = <<>>
          THEN HeadersFrom_last_wins(lines, k + 1, acc)
          ELSE IF m # None
            THEN HeadersFrom_last_wins(lines, k + 1,
                   [acc EXCEPT !.maestro =
                      [n \in DOMAIN acc.maestro \cup {PyLower(PyStrip(Get(m).name))} |->
                         IF n = PyLower(PyStrip(Get(m).name))
                           THEN PyStrip(Get(m).value)
                           ELSE acc.maestro[n]]])
            ELSE IF StartsWith(line_stripped, <<"T", ":">>)
              THEN HeadersFrom_last_wins(lines, k + 1, [acc EXCEPT !.first_t = Some(value)])
              ELSE IF StartsWith(line_stripped, <<"C", ":">>)
                THEN HeadersFrom_last_wins(lines, k + 1, [acc EXCEPT !.first_c = Some(value)])
                ELSE IF StartsWith(line_stripped, <<"Z", ":">>)
                  THEN HeadersFrom_last_wins(lines, k + 1, [acc EXCEPT !.first_z = Some(value)])
                  ELSE HeadersFrom_last_wins(lines, k + 1, acc)

\* The loop of _parse_headers from line k on; acc holds the dict and the
\* three first header values found so far.
RECURSIVE HeadersFrom(_, _, _)
HeadersFrom(lines, k, acc) ==
  IF k > Len(lines) THEN acc
  ELSE
    LET line_stripped == PyStrip(lines[k])
        m == MaestroMatch(line_stripped)
        value == PyStrip(From(line_stripped, 3))
    IN  IF line_stripped = <<>>
          THEN HeadersFrom(lines, k + 1, acc)
          ELSE IF m # None
            THEN HeadersFrom(lines, k + 1,
                   [acc EXCEPT !.maestro =
                      [n \in DOMAIN acc.maestro \cup {PyLower(PyStrip(Get(m).name))} |->
                         IF n = PyLower(PyStrip(Get(m).name))
                           THEN PyStrip(Get(m).value)
                           ELSE acc.maestro[n]]])
            ELSE IF StartsWith(line_stripped, <<"T", ":">>) /\ acc.first_t = None
              THEN HeadersFrom(lines, k + 1, [acc EXCEPT !.first_t = Some(value)])
              ELSE IF StartsWith(line_stripped, <<"C", ":">>) /\ acc.first_c = None
                THEN HeadersFrom(lines, k + 1, [acc EXCEPT !.first_c = Some(value)])
                ELSE IF StartsWith(line_stripped, <<"Z", ":">>) /\ acc.first_z = None
                  THEN HeadersFrom(lines, k + 1, [acc EXCEPT !.first_z = Some(value)])
                  ELSE HeadersFrom(lines, k + 1, acc)

_parse_headers(content) ==
  LET acc == HeadersFrom(content, 1,
               [maestro |-> <<>>, first_t |-> None, first_c |-> None,
                first_z |-> None])
  IN  [maestro |-> acc.maestro, first_t |-> OrEmpty(acc.first_t),
       first_c |-> OrEmpty(acc.first_c), first_z |-> OrEmpty(acc.first_z)]

\* x_pattern.match on a stripped line: None, or the integer of group 1.
XMatch(stripped) ==
  LET rest == StripLeft(From(stripped, 3), Whitespace)
      n == RunLength(rest, 1, Digits)
  IN  IF Len(stripped) >= 2 /\ stripped[1] \in {"X", "x"} /\ stripped[2] = ":"
           /\ n > 0
        THEN Some(DecimalValue(SubSeq(rest, 1, n)))
        ELSE None

\* The inner loop of _parse_parts: the block from line i up to the next
\* marker or the end.
RECURSIVE PartBlock(_, _, _, _)
PartBlock(lines, i, part_name, made_for) ==
  IF i > Len(lines) \/ XMatch(PyStrip(lines[i])) # None
    THEN [i |-> i, part_name |-> part_name, made_for |-> made_for]
    ELSE
      LET tag == MaestroMatch(PyStrip(lines[i]))
          name == PyLower(PyStrip(Get(tag).name))
          val == PyStrip(Get(tag).value)
          opt == IF val = <<>> THEN None ELSE Some(val)
      IN  IF tag # None /\ name = PartNameTag
            THEN PartBlock(lines, i + 1, opt, made_for)
            ELSE IF tag # None /\ name = MadeForTag
              THEN PartBlock(lines, i + 1, part_name, opt)
              ELSE PartBlock(lines, i + 1, part_name, made_for)

\* A plausible slip: the parts are numbered by their position.
RECURSIVE PartsLoop_renumbered(_, _, _)
PartsLoop_renumbered(lines, i, parts) ==
  IF i > Len(lines) THEN parts
  ELSE
    LET m == XMatch(PyStrip(lines[i]))
        b == PartBlock(lines, i + 1, None, None)
    IN  IF m # None
          THEN PartsLoop_renumbered(lines, b.i,
                 Append(parts, PartInfo(Len(parts) + 1, b.part_name, b.made_for)))
          ELSE PartsLoop_renumbered(lines, i + 1, parts)

\* The outer loop of _parse_parts from line i on.
RECURSIVE PartsLoop(_, _, _)
PartsLoop(lines, i, parts) ==
  IF i > Len(lines) THEN parts
  ELSE
    LET m == XMatch(PyStrip(lines[i]))
        b == PartBlock(lines, i + 1, None, None)
    IN  IF m # None
          THEN PartsLoop(lines, b.i,
                 Append(parts, PartInfo(Get(m), b.part_name, b.made_for)))
          ELSE PartsLoop(lines, i + 1, parts)

_parse_parts(content) == PartsLoop(content, 1, <<>>)

\* (a or b) of Python on texts.
OrText(a, b) == IF a # <<>> THEN a ELSE b

\* A plausible slip: the T: header is looked at before the title tag.
parse_abc_content_header_first(content, filename) ==
  LET h == _parse_headers(content)
      title_tag == _get_maestro_value(h.maestro, SongTitleTag)
      title == IF h.first_t # <<>>
                 THEN h.first_t
                 ELSE OrText(OrEmpty(title_tag), OrText(OrEmpty(filename), UnknownText))
      composers_tag == _get_maestro_value(h.maestro, SongComposerTag)
      composers == IF composers_tag # None /\ Get(composers_tag) # <<>>
                     THEN Get(composers_tag)
                     ELSE OrText(h.first_c, UnknownText)
      transcriber_tag == _get_maestro_value(h.maestro, SongTranscriberTag)
      transcriber == IF transcriber_tag = None \/ Get(transcriber_tag) = <<>>
                       THEN (IF h.first_z # <<>> THEN Some(h.first_z) ELSE None)
                       ELSE transcriber_tag
      dur_str == _get_maestro_value(h.maestro, SongDurationTag)
  IN  ParsedSong(OrText(PyStrip(title), UnknownText),
                 OrText(PyStrip(composers), UnknownText),
                 IF dur_str # None /\ Get(dur_str) # <<>>
                   THEN _parse_mm_ss(Get(dur_str)) ELSE None,
                 IF transcriber # None /\ PyStrip(Get(transcriber)) # <<>>
                   THEN Some(PyStrip(Get(transcriber))) ELSE None,
                 _get_maestro_value(h.maestro, ExportTimestampTag),
                 _parse_parts(content))

parse_abc_content(content, filename) ==
  LET h == _parse_headers(content)
      title_tag == _get_maestro_value(h.maestro, SongTitleTag)
      title == IF title_tag # None /\ Get(title_tag) # <<>>
                 THEN Get(title_tag)
                 ELSE OrText(h.first_t, OrText(OrEmpty(filename), UnknownText))
      composers_tag == _get_maestro_value(h.maestro, SongComposerTag)
      composers == IF composers_tag # None /\ Get(composers_tag) # <<>>
                     THEN Get(composers_tag)
                     ELSE OrText(h.first_c, UnknownText)
      transcriber_tag == _get_maestro_value(h.maestro, SongTranscriberTag)
      transcriber == IF transcriber_tag = None \/ Get(transcriber_tag) = <<>>
                       THEN (IF h.first_z # <<>> THEN Some(h.first_z) ELSE None)
                       ELSE transcriber_tag
      dur_str == _get_maestro_value(h.maestro, SongDurationTag)
  IN  ParsedSong(OrText(PyStrip(title), UnknownText),
                 OrText(PyStrip(composers), UnknownText),
                 IF dur_str # None /\ Get(dur_str) # <<>>
                   THEN _parse_mm_ss(Get(dur_str)) ELSE None,
                 IF transcriber # None /\ PyStrip(Get(transcriber)) # <<>>
                   THEN Some(PyStrip(Get(transcriber))) ELSE None,
                 _get_maestro_value(h.maestro, ExportTimestampTag),
                 _parse_parts(content))

\* Lines of a file as Maestro writes them.
TagLine(name, value) ==
  <<"%", "%">> \o name \o (IF value = <<>> THEN <<>> ELSE <<" ">> \o value)

HeaderLine(letter, value) == <<letter, ":">> \o value

MarkerLine(digits) == <<"X", ":">> \o digits

\* The file contents used by the model.  Contents 1 and 2 have the same
\* logical identity and differ in title case, duration, transcriber, export
\* timestamp and instrument hint; content 3 has a title with a non-ASCII
\* capital.
Contents == {1, 2, 3}

FileLines(c) ==
  CASE c = 1 -> <<TagLine(SongTitleTag, <<"R", "e">>),
                  TagLine(SongComposerTag, <<"T">>),
                  TagLine(SongDurationTag, <<"1", ":", "4", "0">>),
                  TagLine(SongTranscriberTag, <<"z">>),
                  TagLine(ExportTimestampTag, <<"t", "1">>),
                  MarkerLine(<<"1">>),
                  TagLine(PartNameTag, <<"P", "1">>),
                  TagLine(MadeForTag, <<"F">>),
                  MarkerLine(<<"2">>)>>
    [] c = 2 -> <<HeaderLine("T", <<" ", "r", "e">>),
                  HeaderLine("C", <<"T">>),
                  TagLine(SongDurationTag, <<"3", ":", "2", "0">>),
                  MarkerLine(<<"1">>),
                  TagLine(PartNameTag, <<"P", "1">>),
                  TagLine(MadeForTag, <<"f">>),
                  MarkerLine(<<"2">>)>>
    [] OTHER -> <<TagLine(SongTitleTag, <<"É">>),
                  TagLine(SongComposerTag, <<"T">>),
                  MarkerLine(<<"7">>)>>

\* path.name of the file read; every content of the model carries a title,
\* so the name never reaches the result.
FileName == <<"f">>

ParsedContents ==
  [c \in Contents |-> parse_abc_content(FileLines(c), Some(FileName))]

\* The parser is a pure function of the text: run_scan reads its results
\* from parsed_files, which holds ParsedContents from the start and is never
\* written.
VARIABLE parsed_files

\* Lines 178-182: read the file and parse its text.
parse_abc_file(c) == parsed_files[c]

\* hashlib.sha256 over the bytes of the file: a function of the content.
ContentHash(c) == c

(***************************************************************************)
(* Paths.                                                                  *)
(***************************************************************************)
MusicDir == <<"M">>
SetDir == <<"M", "s">>
OldDir == <<"M", "o">>

\* The .abc files that may exist on disk.
Paths == {<<"M", "a">>, <<"M", "b">>, <<"M", "o", "c">>}

\* Path.relative_to succeeds: prefix is a leading run of whole segments.
_path_is_under(path, prefix) ==
  /\ Len(prefix) <= Len(path)
  /\ SubSeq(path, 1, Len(prefix)) = prefix

_path_is_excluded(path, exclude_paths) ==
  \E ex \in exclude_paths : _path_is_under(path, ex)

\* A plausible slip: the library roots are looked at before the exclusions.
_classify_path_library_first(path, library_roots, set_roots, exclude_paths) ==
  LET under_set == \E r \in set_roots : _path_is_under(path, r)
      under_lib == \E r \in library_roots : _path_is_under(path, r)
  IN  IF under_lib
        THEN [is_primary |-> TRUE, is_set_copy |-> FALSE, scan_excluded |-> FALSE]
        ELSE IF _path_is_excluded(path, exclude_paths)
          THEN [is_primary |-> FALSE, is_set_copy |-> FALSE, scan_excluded |-> TRUE]
          ELSE IF under_set
            THEN [is_primary |-> FALSE, is_set_copy |-> TRUE, scan_excluded |-> FALSE]
            ELSE [is_primary |-> TRUE, is_set_copy |-> FALSE, scan_excluded |-> FALSE]

_classify_path(path, library_roots, set_roots, exclude_paths) ==
  LET under_set == \E r \in set_roots : _path_is_under(path, r)
      under_lib == \E r \in library_roots : _path_is_under(path, r)
  IN  IF _path_is_excluded(path, exclude_paths)
        THEN [is_primary |-> FALSE, is_set_copy |-> FALSE, scan_excluded |-> TRUE]
        ELSE IF under_set /\ ~under_lib
          THEN [is_primary |-> FALSE, is_set_copy |-> TRUE, scan_excluded |-> FALSE]
          ELSE [is_primary |-> TRUE, is_set_copy |-> FALSE, scan_excluded |-> FALSE]

\* Root configuration read by the scan: lotro is TRUE when the LOTRO root is
\* set and its Music folder exists, set_export when the Set Export directory
\* is configured and exists, exclude_old when an enabled exclude FolderRule
\* names OldDir.
InitialConfig == [lotro |-> TRUE, set_export |-> FALSE, exclude_old |-> FALSE]

get_enabled_roots(c) ==
  [library_roots |-> IF c.lotro THEN {MusicDir} ELSE {},
   set_roots |-> IF c.set_export THEN {SetDir} ELSE {},
   exclude_paths |-> (IF c.set_export THEN {SetDir} ELSE {})
                       \cup (IF c.exclude_old THEN {OldDir} ELSE {})]

(***************************************************************************)
(* Catalog: db/instrument.py and db/song_repo.py.                          *)
(*                                                                         *)
(* The parts column holds the JSON array as the sequence of its objects;   *)
(* json_array_length is the length of that sequence.                       *)
(***************************************************************************)
UnknownName == <<"U", "n", "k">>

\* First row of a SELECT without ORDER BY on a rowid table: lowest id.
FirstRow(rows) == CHOOSE r \in rows : \A q \in rows : r.id <= q.id

\* Returns the id and the Instrument table after the call.
_get_or_create_by_name(instruments, name) ==
  LET byName == {r \in instruments : r.name = name}
      byAlt == {r \in instruments :
                  /\ r.alternative_names # None
                  /\ \E k \in 1..Len(Get(r.alternative_names)) :
                       PyLower(PyStrip(Get(r.alternative_names)[k])) = PyLower(name)}
  IN  IF byName # {}
        THEN [id |-> FirstRow(byName).id, instruments |-> instruments]
        ELSE IF byAlt # {}
          THEN [id |-> FirstRow(byAlt).id, instruments |-> instruments]
          ELSE [id |-> NextId(instruments),
                instruments |-> instruments \cup
                  {[id |-> NextId(instruments), name |-> name,
                    alternative_names |-> None]}]

resolve_instrument_id(instruments, name) ==
  IF name = <<>> \/ PyStrip(name) = <<>>
    THEN _get_or_create_by_name(instruments, UnknownName)
    ELSE _get_or_create_by_name(instruments, PyStrip(name))

\* Returns the parts array and the Instrument table after resolving the
\* instrument hints of parts[k..] in order.
RECURSIVE PartsFrom(_, _, _)
PartsFrom(parts, k, instruments) ==
  IF k > Len(parts)
    THEN [json |-> <<>>, instruments |-> instruments]
    ELSE LET p == parts[k]
             hinted == p.made_for # None /\ Get(p.made_for) # <<>>
             res == IF hinted
                      THEN resolve_instrument_id(instruments, Get(p.made_for))
                      ELSE [id |-> 0, instruments |-> instruments]
             rest == PartsFrom(parts, k + 1, res.instruments)
         IN  [json |-> <<[part_number |-> p.part_number,
                          part_name |-> p.part_name,
                          instrument_id |-> IF hinted THEN Some(res.id) ELSE None]>>
                        \o rest.json,
              instruments |-> rest.instruments]

_parts_to_json(parsed, instruments) == PartsFrom(parsed.parts, 1, instruments)

\* A plausible slip: the title is lower-cased but not stripped.
_normalize_title_not_stripped(s) == PyLower(s)

_normalize_title(s) == PyLower(PyStrip(s))

logical_identity(parsed) ==
  [title |-> _normalize_title(parsed.title),
   composers |-> PyStrip(parsed.composers),
   part_count |-> Len(parsed.parts)]

find_song_by_logical_identity(songs, key) ==
  {s.id : s \in {r \in songs :
                   /\ SqlLower(SqlTrim(r.title)) = key.title
                   /\ SqlTrim(r.composers) = key.composers
                   /\ Len(r.parts) = key.part_count}}

\* The clock of the catalog: the number of the scan begun last.
VARIABLE scans

_now == scans

\* A plausible slip: the SongFile of the path is not looked up.
ensure_song_from_parsed_always_inserts(cat, parsed, file_path, file_mtime, file_hash, zone) ==
  LET pj == _parts_to_json(parsed, cat.Instrument)
      existing == {}
  IN  IF existing # {}
        THEN LET row == FirstRow(existing)
             IN  [Song |-> {IF s.id = row.song_id
                              THEN [s EXCEPT !.title = parsed.title,
                                             !.composers = parsed.composers,
                                             !.duration_seconds = parsed.duration_seconds,
                                             !.transcriber = parsed.transcriber,
                                             !.parts = pj.json]
                              ELSE s : s \in cat.Song},
                  SongFile |-> {IF f.id = row.id
                                  THEN [f EXCEPT !.file_mtime = file_mtime,
                                                 !.file_hash = file_hash,
                                                 !.export_timestamp = parsed.export_timestamp,
                                                 !.is_primary_library = zone.is_primary,
                                                 !.is_set_copy = zone.is_set_copy,
                                                 !.scan_excluded = zone.scan_excluded]
                                  ELSE f : f \in cat.SongFile},
                  Instrument |-> pj.instruments]
        ELSE LET song_id == NextId(cat.Song)
             IN  [Song |-> cat.Song \cup
                    {[id |-> song_id, title |-> parsed.title,
                      composers |-> parsed.composers,
                      duration_seconds |-> parsed.duration_seconds,
                      transcriber |-> parsed.transcriber,
                      rating |-> None, status_id |-> None, notes |-> None, lyrics |-> None,
                      last_played_at |-> None, total_plays |-> 0,
                      parts |-> pj.json, created_at |-> _now]},
                  SongFile |-> cat.SongFile \cup
                    {[id |-> NextId(cat.SongFile), song_id |-> song_id,
                      file_path |-> file_path, file_mtime |-> file_mtime,
                      file_hash |-> file_hash,
                      export_timestamp |-> parsed.export_timestamp,
                      is_primary_library |-> zone.is_primary,
                      is_set_copy |-> zone.is_set_copy,
                      scan_excluded |-> zone.scan_excluded]},
                  Instrument |-> pj.instruments]

\* A plausible slip: the update branch refreshes the SongFile only.
ensure_song_from_parsed_keeps_song(cat, parsed, file_path, file_mtime, file_hash, zone) ==
  LET pj == _parts_to_json(parsed, cat.Instrument)
      existing == {f \in cat.SongFile : f.file_path = file_path}
  IN  IF existing # {}
        THEN LET row == FirstRow(existing)
             IN  [Song |-> cat.Song,
                  SongFile |-> {IF f.id = row.id
                                  THEN [f EXCEPT !.file_mtime = file_mtime,
                                                 !.file_hash = file_hash,
                                                 !.export_timestamp = parsed.export_timestamp,
                                                 !.is_primary_library = zone.is_primary,
                                                 !.is_set_copy = zone.is_set_copy,
                                                 !.scan_excluded = zone.scan_excluded]
                                  ELSE f : f \in cat.SongFile},
                  Instrument |-> pj.instruments]
        ELSE LET song_id == NextId(cat.Song)
             IN  [Song |-> cat.Song \cup
                    {[id |-> song_id, title |-> parsed.title,
                      composers |-> parsed.composers,
                      duration_seconds |-> parsed.duration_seconds,
                      transcriber |-> parsed.transcriber,
                      rating |-> None, status_id |-> None, notes |-> None, lyrics |-> None,
                      last_played_at |-> None, total_plays |-> 0,
                      parts |-> pj.json, created_at |-> _now]},
                  SongFile |-> cat.SongFile \cup
                    {[id |-> NextId(cat.SongFile), song_id |-> song_id,
                      file_path |-> file_path, file_mtime |-> file_mtime,
                      file_hash |-> file_hash,
                      export_timestamp |-> parsed.export_timestamp,
                      is_primary_library |-> zone.is_primary,
                      is_set_copy |-> zone.is_set_copy,
                      scan_excluded |-> zone.scan_excluded]},
                  Instrument |-> pj.instruments]

\* A plausible slip: the update branch writes the row of the Song anew.
ensure_song_from_parsed_replaces_song(cat, parsed, file_path, file_mtime, file_hash, zone) ==
  LET pj == _parts_to_json(parsed, cat.Instrument)
      existing == {f \in cat.SongFile : f.file_path = file_path}
  IN  IF existing # {}
        THEN LET row == FirstRow(existing)
             IN  [Song |-> {IF s.id = row.song_id
                              THEN [id |-> s.id, title |-> parsed.title,
                                    composers |-> parsed.composers,
                                    duration_seconds |-> parsed.duration_seconds,
                                    transcriber |-> parsed.transcriber,
                                    rating |-> None, status_id |-> None,
                                    notes |-> None, lyrics |-> None,
                                    last_played_at |-> None, total_plays |-> 0,
                                    parts |-> pj.json, created_at |-> _now]
                              ELSE s : s \in cat.Song},
                  SongFile |-> {IF f.id = row.id
                                  THEN [f EXCEPT !.file_mtime = file_mtime,
                                                 !.file_hash = file_hash,
                                                 !.export_timestamp = parsed.export_timestamp,
                                                 !.is_primary_library = zone.is_primary,
                                                 !.is_set_copy = zone.is_set_copy,
                                                 !.scan_excluded = zone.scan_excluded]
                                  ELSE f : f \in cat.SongFile},
                  Instrument |-> pj.instruments]
        ELSE LET song_id == NextId(cat.Song)
             IN  [Song |-> cat.Song \cup
                    {[id |-> song_id, title |-> parsed.title,
                      composers |-> parsed.composers,
                      duration_seconds |-> parsed.duration_seconds,
                      transcriber |-> parsed.transcriber,
                      rating |-> None, status_id |-> None, notes |-> None, lyrics |-> None,
                      last_played_at |-> None, total_plays |-> 0,
                      parts |-> pj.json, created_at |-> _now]},
                  SongFile |-> cat.SongFile \cup
                    {[id |-> NextId(cat.SongFile), song_id |-> song_id,
                      file_path |-> file_path, file_mtime |-> file_mtime,
                      file_hash |-> file_hash,
                      export_timestamp |-> parsed.export_timestamp,
                      is_primary_library |-> zone.is_primary,
                      is_set_copy |-> zone.is_set_copy,
                      scan_excluded |-> zone.scan_excluded]},
                  Instrument |-> pj.instruments]

\* cat is [Song, SongFile, Instrument]; the result is cat after the call.
ensure_song_from_parsed(cat, parsed, file_path, file_mtime, file_hash, zone) ==
  LET pj == _parts_to_json(parsed, cat.Instrument)
      existing == {f \in cat.SongFile : f.file_path = file_path}
  IN  IF existing # {}
        THEN LET row == FirstRow(existing)
             IN  [Song |-> {IF s.id = row.song_id
                              THEN [s EXCEPT !.title = parsed.title,
                                             !.composers = parsed.composers,
                                             !.duration_seconds = parsed.duration_seconds,
                                             !.transcriber = parsed.transcriber,
                                             !.parts = pj.json]
                              ELSE s : s \in cat.Song},
                  SongFile |-> {IF f.id = row.id
                                  THEN [f EXCEPT !.file_mtime = file_mtime,
                                                 !.file_hash = file_hash,
                                                 !.export_timestamp = parsed.export_timestamp,
                                                 !.is_primary_library = zone.is_primary,
                                                 !.is_set_copy = zone.is_set_copy,
                                                 !.scan_excluded = zone.scan_excluded]
                                  ELSE f : f \in cat.SongFile},
                  Instrument |-> pj.instruments]
        ELSE LET song_id == NextId(cat.Song)
             IN  [Song |-> cat.Song \cup
                    {[id |-> song_id, title |-> parsed.title,
                      composers |-> parsed.composers,
                      duration_seconds |-> parsed.duration_seconds,
                      transcriber |-> parsed.transcriber,
                      rating |-> None, status_id |-> None, notes |-> None, lyrics |-> None,
                      last_played_at |-> None, total_plays |-> 0,
                      parts |-> pj.json, created_at |-> _now]},
                  SongFile |-> cat.SongFile \cup
                    {[id |-> NextId(cat.SongFile), song_id |-> song_id,
                      file_path |-> file_path, file_mtime |-> file_mtime,
                      file_hash |-> file_hash,
                      export_timestamp |-> parsed.export_timestamp,
                      is_primary_library |-> zone.is_primary,
                      is_set_copy |-> zone.is_set_copy,
                      scan_excluded |-> zone.scan_excluded]},
                  Instrument |-> pj.instruments]

\* Adds one SongFile row for file_path under the existing Song song_id.
link_file_to_song(cat, song_id, file_path, file_mtime, file_hash, export_timestamp, zone) ==
  [cat EXCEPT !.SongFile = @ \cup
     {[id |-> NextId(cat.SongFile), song_id |-> song_id,
       file_path |-> file_path, file_mtime |-> file_mtime,
       file_hash |-> file_hash, export_timestamp |-> export_timestamp,
       is_primary_library |-> zone.is_primary,
       is_set_copy |-> zone.is_set_copy,
       scan_excluded |-> zone.scan_excluded]}]

\* A plausible slip: the excluded directories are walked like the others.
_collect_abc_files_keeps_excluded(roots, exclude_paths, files) ==
  {f \in DOMAIN files : \E r \in roots : _path_is_under(f, r)}

(***************************************************************************)
(* Scanner: scanning/scanner.py.                                           *)
(***************************************************************************)
\* The .abc files found under the roots, excluded ones skipped, each resolved
\* path once.  files maps the paths that exist on disk to their file.
_collect_abc_files(roots, exclude_paths, files) ==
  {f \in DOMAIN files :
     /\ \E r \in roots : _path_is_under(f, r)
     /\ ~_path_is_excluded(f, exclude_paths)}

\* A plausible slip: the Songs to keep are read before the SongFile rows go.
_remove_missing_keeps_orphans(db, current_paths) ==
  LET files == IF current_paths = {}
                 THEN {}
                 ELSE {f \in db.SongFile : f.file_path \in current_paths}
      kept == {f.song_id : f \in db.SongFile}
      goneItems == {i.id : i \in {r \in db.SetlistItem : r.song_id \notin kept}}
      goneLayouts == {l.id : l \in {r \in db.SongLayout : r.song_id \notin kept}}
  IN  [db EXCEPT
         !.SongFile = files,
         !.SetlistBandAssignment = {a \in @ : a.setlist_item_id \notin goneItems},
         !.SetlistItem = {i \in @ : i.song_id \in kept},
         !.SongLayoutAssignment = {a \in @ : a.song_layout_id \notin goneLayouts},
         !.SongLayout = {l \in @ : l.song_id \in kept},
         !.PlayLog = {r \in @ : r.song_id \in kept},
         !.Song = {r \in @ : r.id \in kept}]

\* A plausible slip: the play history of a deleted Song is left behind.
_remove_missing_keeps_plays(db, current_paths) ==
  LET files == IF current_paths = {}
                 THEN {}
                 ELSE {f \in db.SongFile : f.file_path \in current_paths}
      kept == {f.song_id : f \in files}
      goneItems == {i.id : i \in {r \in db.SetlistItem : r.song_id \notin kept}}
      goneLayouts == {l.id : l \in {r \in db.SongLayout : r.song_id \notin kept}}
  IN  [db EXCEPT
         !.SongFile = files,
         !.SetlistBandAssignment = {a \in @ : a.setlist_item_id \notin goneItems},
         !.SetlistItem = {i \in @ : i.song_id \in kept},
         !.SongLayoutAssignment = {a \in @ : a.song_layout_id \notin goneLayouts},
         !.SongLayout = {l \in @ : l.song_id \in kept},
         !.Song = {r \in @ : r.id \in kept}]

\* A plausible slip: an empty set of paths is taken for "nothing to reconcile".
_remove_missing_skips_empty(db, current_paths) ==
  LET files == IF current_paths = {}
                 THEN db.SongFile
                 ELSE {f \in db.SongFile : f.file_path \in current_paths}
      kept == {f.song_id : f \in files}
      goneItems == {i.id : i \in {r \in db.SetlistItem : r.song_id \notin kept}}
      goneLayouts == {l.id : l \in {r \in db.SongLayout : r.song_id \notin kept}}
  IN  [db EXCEPT
         !.SongFile = files,
         !.SetlistBandAssignment = {a \in @ : a.setlist_item_id \notin goneItems},
         !.SetlistItem = {i \in @ : i.song_id \in kept},
         !.SongLayoutAssignment = {a \in @ : a.song_layout_id \notin goneLayouts},
         !.SongLayout = {l \in @ : l.song_id \in kept},
         !.PlayLog = {r \in @ : r.song_id \in kept},
         !.Song = {r \in @ : r.id \in kept}]

\* db is the record of all tables; the result is db after the call.
_remove_missing_song_files(db, current_paths) ==
  LET files == IF current_paths = {}
                 THEN {}
                 ELSE {f \in db.SongFile : f.file_path \in current_paths}
      kept == {f.song_id : f \in files}
      goneItems == {i.id : i \in {r \in db.SetlistItem : r.song_id \notin kept}}
      goneLayouts == {l.id : l \in {r \in db.SongLayout : r.song_id \notin kept}}
  IN  [db EXCEPT
         !.SongFile = files,
         !.SetlistBandAssignment = {a \in @ : a.setlist_item_id \notin goneItems},
         !.SetlistItem = {i \in @ : i.song_id \in kept},
         !.SongLayoutAssignment = {a \in @ : a.song_layout_id \notin goneLayouts},
         !.SongLayout = {l \in @ : l.song_id \in kept},
         !.PlayLog = {r \in @ : r.song_id \in kept},
         !.Song = {r \in @ : r.id \in kept}]

\* What on_duplicate may hand back: a pair (action, link_song_id), nothing at
\* all, or an exception.
Tuple(action, link_song_id) ==
  [kind |-> "tuple", action |-> action, link_song_id |-> link_song_id]

NoDecision == [kind |-> "none", action |-> "", link_song_id |-> None]

Raises == [kind |-> "raise", action |-> "", link_song_id |-> None]

NotAsked == [kind |-> "not_asked", action |-> "", link_song_id |-> None]

Decisions(existing_ids) ==
  {Tuple("link", Some(sid)) : sid \in existing_ids}
    \cup {Tuple("link", None), Tuple("separate", None), Tuple("ignore", None),
          Tuple("skip", None), NoDecision, Raises}

\* A plausible slip: the link branch creates a Song of its own for the file.
policy_branch_link_as_separate(d) ==
  IF d.kind # "tuple"
    THEN "raise"
    ELSE IF d.action = "link" /\ d.link_song_id # None
      THEN "separate"
      ELSE IF d.action = "separate" THEN "separate" ELSE "ignore"

\* A plausible slip: every answer that is not a link creates a Song.
policy_branch_else_separate(d) ==
  IF d.kind # "tuple"
    THEN "raise"
    ELSE IF d.action = "link" /\ d.link_song_id # None
      THEN "link"
      ELSE "separate"

\* A plausible slip: the action name of the second branch is misspelt.
policy_branch_misspelt(d) ==
  IF d.kind # "tuple"
    THEN "raise"
    ELSE IF d.action = "link" /\ d.link_song_id # None
      THEN "link"
      ELSE IF d.action = "seperate" THEN "separate" ELSE "ignore"

\* The branch run_scan takes on the value on_duplicate hands back:
\* unpacking anything but a pair raises.
policy_branch(d) ==
  IF d.kind # "tuple"
    THEN "raise"
    ELSE IF d.action = "link" /\ d.link_song_id # None
      THEN "link"
      ELSE IF d.action = "separate" THEN "separate" ELSE "ignore"

Outcome(c, sc, er, branch, ids) ==
  [cat |-> c, scanned |-> sc, errors |-> er, branch |-> branch,
   existing_ids |-> ids]

\* A plausible slip: the file that failed is counted as scanned, not as an error.
parse_failed_miscounted(cat, scanned, errors) ==
  Outcome(cat, scanned + 1, errors, "error", {})

\* Lines 150-154: parse_abc_file raised.
parse_failed(cat, scanned, errors) ==
  Outcome(cat, scanned, errors + 1, "error", {})

\* One iteration of the loop of run_scan over the file at path.  file is None
\* when the file cannot be read, d is what on_duplicate hands back if it is
\* called.  The result holds the tables the iteration writes, the counters,
\* the branch taken, the candidates shown to the policy and whether the
\* iteration raised.
scan_file(cat, path, file, roots, on_duplicate, d, scanned, errors) ==
  LET zone == _classify_path(path, roots.library_roots, roots.set_roots,
                             roots.exclude_paths)
      out(c, sc, er, branch, ids) == Outcome(c, sc, er, branch, ids)
  IN  IF file = None
        THEN parse_failed(cat, scanned, errors)
        ELSE
          LET parsed == parse_abc_file(Get(file).content)
              mtime == Some(Get(file).mtime)
              file_hash_val == Some(ContentHash(Get(file).content))
              existing_ids == find_song_by_logical_identity(cat.Song,
                                logical_identity(parsed))
              ensured == ensure_song_from_parsed(cat, parsed, path, mtime,
                           file_hash_val, zone)
          IN  IF \E f \in cat.SongFile : f.file_path = path
                THEN out(ensured, scanned + 1, errors, "update", {})
                ELSE IF zone.is_primary /\ on_duplicate /\ existing_ids # {}
                  THEN CASE policy_branch(d) = "raise" ->
                              out(cat, scanned, errors, "raise", existing_ids)
                         [] policy_branch(d) = "link" ->
                              out(link_file_to_song(cat, Get(d.link_song_id), path,
                                    mtime, file_hash_val, parsed.export_timestamp,
                                    [is_primary |-> TRUE, is_set_copy |-> FALSE,
                                     scan_excluded |-> FALSE]),
                                  scanned + 1, errors, "link", existing_ids)
                         [] policy_branch(d) = "separate" ->
                              out(ensured, scanned + 1, errors, "separate",
                                  existing_ids)
                         [] OTHER ->
                              out(cat, scanned, errors, "ignore", existing_ids)
                  ELSE out(ensured, scanned + 1, errors, "create", {})

(***************************************************************************)
(* State.                                                                  *)
(***************************************************************************)
VARIABLES
  fs,                    \* path -> [content, mtime, readable] of the files on disk
  cfg,                   \* root configuration (preferences and FolderRule)
  Song, SongFile, Instrument, PlayLog, SetlistItem, SetlistBandAssignment,
  SongLayout, SongLayoutAssignment,          \* tables of the catalog
  pc,                    \* "idle", "loop", "done", "raised"
  on_duplicate,          \* run_scan was given a duplicate policy
  roots,                 \* library_roots, set_roots, exclude_paths of the scan
  files, idx,            \* enumerated files and the number of iterations begun
  scanned, errors, scanned_paths,
  result,                \* what run_scan returned
  last,                  \* path, branch, candidates and decision of the last iteration
  consulted,             \* on_duplicate was called in this scan
  startCat,              \* Song and SongFile when the scan started
  clean,                 \* nothing changed since the last completed scan
  rescan,                \* this scan started right after a completed scan
                         \* and was given the same policy argument
  fsOps, userOps,        \* operation counters
  probe                  \* a call of a function on its own: its arguments and result

catalogVars ==
  <<Song, SongFile, Instrument, PlayLog, SetlistItem, SetlistBandAssignment,
    SongLayout, SongLayoutAssignment>>

scanVars ==
  <<pc, on_duplicate, roots, files, idx, scanned, errors, scanned_paths, result,
    last, consulted, startCat, rescan, scans>>

appVars == <<parsed_files, fs, cfg, catalogVars, scanVars, clean, fsOps, userOps>>

vars == <<appVars, probe>>

Tables ==
  [Song |-> Song, SongFile |-> SongFile, Instrument |-> Instrument,
   PlayLog |-> PlayLog, SetlistItem |-> SetlistItem,
   SetlistBandAssignment |-> SetlistBandAssignment,
   SongLayout |-> SongLayout, SongLayoutAssignment |-> SongLayoutAssignment]

NoLast == [path |-> <<>>, branch |-> "", existing_ids |-> {}, d |-> NotAsked]

\* The files on disk when the application first runs.
InitialFiles ==
  (<<"M", "a">> :> [content |-> 1, mtime |-> 0, readable |-> TRUE])
    @@ (<<"M", "b">> :> [content |-> 2, mtime |-> 0, readable |-> TRUE])

\* No function is called on its own.
NoProbe == [op |-> "none"]

AppInit ==
  /\ parsed_files = ParsedContents
  /\ fs = InitialFiles
  /\ cfg = InitialConfig
  /\ Song = {} /\ SongFile = {} /\ Instrument = {} /\ PlayLog = {}
  /\ SetlistItem = {} /\ SetlistBandAssignment = {}
  /\ SongLayout = {} /\ SongLayoutAssignment = {}
  /\ pc = "idle"
  /\ on_duplicate = FALSE
  /\ roots = get_enabled_roots(InitialConfig)
  /\ files = {} /\ idx = 0
  /\ scanned = 0 /\ errors = 0 /\ scanned_paths = {}
  /\ result = None
  /\ last = NoLast
  /\ consulted = FALSE
  /\ startCat = [Song |-> {}, SongFile |-> {}]
  /\ clean = FALSE /\ rescan = FALSE
  /\ scans = 0 /\ fsOps = 0 /\ userOps = 0

Init == AppInit /\ probe = NoProbe

Idle == pc \in {"idle", "done", "raised"}

(***************************************************************************)
(* The file system and the configuration change while no scan runs.        *)
(***************************************************************************)
\* Once run_scan has returned or raised and something else happens, nothing of
\* the finished call is left but the catalog.
ForgetScan ==
  /\ pc' = "idle"
  /\ on_duplicate' = FALSE
  /\ roots' = get_enabled_roots(InitialConfig)
  /\ files' = {} /\ idx' = 0
  /\ scanned' = 0 /\ errors' = 0 /\ scanned_paths' = {}
  /\ result' = None
  /\ last' = NoLast
  /\ consulted' = FALSE
  /\ startCat' = [Song |-> {}, SongFile |-> {}]
  /\ clean' = FALSE /\ rescan' = FALSE
  /\ UNCHANGED scans

\* Changes after the last scan of a run of the model are seen by no scan.
FsStep ==
  /\ Idle
  /\ scans < MaxScans
  /\ fsOps < MaxFsOps
  /\ fsOps' = fsOps + 1
  /\ ForgetScan
  /\ UNCHANGED <<catalogVars, userOps, probe, parsed_files>>

WriteFile ==
  /\ FsStep
  /\ \E p \in Paths, c \in Contents :
       fs' = [q \in DOMAIN fs \cup {p} |->
                IF q = p THEN [content |-> c, mtime |-> fsOps + 1, readable |-> TRUE]
                         ELSE fs[q]]
  /\ UNCHANGED cfg

RemoveFile ==
  /\ FsStep
  /\ \E p \in DOMAIN fs : fs' = [q \in DOMAIN fs \ {p} |-> fs[q]]
  /\ UNCHANGED cfg

MoveFile ==
  /\ FsStep
  /\ \E p \in DOMAIN fs, t \in Paths \ DOMAIN fs :
       fs' = [q \in (DOMAIN fs \ {p}) \cup {t} |-> IF q = t THEN fs[p] ELSE fs[q]]
  /\ UNCHANGED cfg

Chmod ==
  /\ FsStep
  /\ \E p \in DOMAIN fs : fs' = [fs EXCEPT ![p].readable = ~@]
  /\ UNCHANGED cfg

SetLotroRoot ==
  /\ FsStep
  /\ cfg' = [cfg EXCEPT !.lotro = ~@]
  /\ UNCHANGED fs

SetExcludeRule ==
  /\ FsStep
  /\ cfg' = [cfg EXCEPT !.exclude_old = ~@]
  /\ UNCHANGED fs

(***************************************************************************)
(* User operations on the rows that depend on a Song.                      *)
(***************************************************************************)
UserStep ==
  /\ Idle
  /\ scans < MaxScans
  /\ userOps < MaxUserOps
  /\ userOps' = userOps + 1
  /\ ForgetScan
  /\ UNCHANGED <<fs, cfg, fsOps, SongFile, Instrument, probe, parsed_files>>

\* A row that hangs on a row the user made: one per parent row.
ChildStep ==
  /\ Idle
  /\ scans < MaxScans
  /\ ForgetScan
  /\ UNCHANGED <<fs, cfg, fsOps, userOps, SongFile, Instrument, probe, parsed_files>>

\* db/play_log.py: the play is stamped with the time of the call.
log_play(songs, plays, song_id, now) ==
  LET logged == plays \cup {[id |-> NextId(plays), song_id |-> song_id,
                              played_at |-> now]}
      mine == {r \in logged : r.song_id = song_id}
  IN  [PlayLog |-> logged,
       Song |-> {IF s.id = song_id
                   THEN [s EXCEPT !.last_played_at = Some(Max({r.played_at : r \in mine})),
                                  !.total_plays = Cardinality(mine)]
                   ELSE s : s \in songs}]

LogPlay ==
  /\ UserStep
  /\ \E s \in Song :
       LET r == log_play(Song, PlayLog, s.id, userOps + 1)
       IN  Song' = r.Song /\ PlayLog' = r.PlayLog
  /\ UNCHANGED <<SetlistItem, SetlistBandAssignment, SongLayout, SongLayoutAssignment>>

\* db/song_layout_repo.py
add_song_layout(layouts, song_id) ==
  layouts \cup {[id |-> NextId(layouts), song_id |-> song_id]}

AddSongLayout ==
  /\ UserStep
  /\ \E s \in Song : SongLayout' = add_song_layout(SongLayout, s.id)
  /\ UNCHANGED <<Song, PlayLog, SetlistItem, SetlistBandAssignment, SongLayoutAssignment>>

set_song_layout_assignment(rows, song_layout_id, player_id) ==
  IF \E a \in rows : a.song_layout_id = song_layout_id /\ a.player_id = player_id
    THEN rows
    ELSE rows \cup {[id |-> NextId(rows), song_layout_id |-> song_layout_id,
                     player_id |-> player_id]}

SetSongLayoutAssignment ==
  /\ ChildStep
  /\ \E l \in SongLayout :
       /\ \A a \in SongLayoutAssignment : a.song_layout_id # l.id
       /\ SongLayoutAssignment' = set_song_layout_assignment(SongLayoutAssignment, l.id, 1)
  /\ UNCHANGED <<Song, PlayLog, SetlistItem, SetlistBandAssignment, SongLayout>>

\* db/setlist_repo.py; the views offer the layouts of the song itself.
add_setlist_item(items, song_id, song_layout_id) ==
  items \cup {[id |-> NextId(items), song_id |-> song_id,
               song_layout_id |-> song_layout_id]}

AddSetlistItem ==
  /\ UserStep
  /\ \E s \in Song :
       \E l \in {None} \cup {Some(r.id) : r \in {q \in SongLayout : q.song_id = s.id}} :
         SetlistItem' = add_setlist_item(SetlistItem, s.id, l)
  /\ UNCHANGED <<Song, PlayLog, SetlistBandAssignment, SongLayout, SongLayoutAssignment>>

\* A band-assignment override of a setlist item.
AddSetlistBandAssignment ==
  /\ ChildStep
  /\ \E i \in SetlistItem :
       /\ \A a \in SetlistBandAssignment : a.setlist_item_id # i.id
       /\ SetlistBandAssignment' = SetlistBandAssignment \cup
            {[id |-> NextId(SetlistBandAssignment), setlist_item_id |-> i.id]}
  /\ UNCHANGED <<Song, PlayLog, SetlistItem, SongLayout, SongLayoutAssignment>>

(***************************************************************************)
(* run_scan.                                                               *)
(***************************************************************************)
SetTables(db) ==
  /\ Song' = db.Song /\ SongFile' = db.SongFile /\ Instrument' = db.Instrument
  /\ PlayLog' = db.PlayLog /\ SetlistItem' = db.SetlistItem
  /\ SetlistBandAssignment' = db.SetlistBandAssignment
  /\ SongLayout' = db.SongLayout /\ SongLayoutAssignment' = db.SongLayoutAssignment

\* A plausible slip: the catalog is reconciled against the enumerated files
\* before they are processed.
StartScan_reconciles_first ==
  /\ Idle
  /\ scans < MaxScans
  /\ scans' = scans + 1
  /\ \E policy \in BOOLEAN : on_duplicate' = policy
  /\ roots' = get_enabled_roots(cfg)
  /\ startCat' = [Song |-> Song, SongFile |-> SongFile]
  /\ rescan' = (clean /\ on_duplicate' = on_duplicate)
  /\ scanned' = 0 /\ errors' = 0 /\ scanned_paths' = {}
  /\ idx' = 0
  /\ last' = NoLast
  /\ consulted' = FALSE
  /\ IF roots'.library_roots = {}
       THEN /\ SetTables(_remove_missing_song_files(Tables, {}))
            /\ files' = {}
            /\ result' = Some(<<0, 0, 0>>)
            /\ pc' = "done"
            /\ clean' = TRUE
       ELSE /\ files' = _collect_abc_files(roots'.library_roots,
                                           roots'.exclude_paths, fs)
            /\ result' = None
            /\ pc' = "loop"
            /\ clean' = FALSE
            /\ SetTables(_remove_missing_song_files(Tables, files'))
  /\ UNCHANGED <<fs, cfg, fsOps, userOps, probe, parsed_files>>

\* Lines 126-140: resolve the roots and enumerate; without a library root
\* reconcile against the empty set and return.
StartScan ==
  /\ Idle
  /\ scans < MaxScans
  /\ scans' = scans + 1
  /\ \E policy \in BOOLEAN : on_duplicate' = policy
  /\ roots' = get_enabled_roots(cfg)
  /\ startCat' = [Song |-> Song, SongFile |-> SongFile]
  /\ rescan' = (clean /\ on_duplicate' = on_duplicate)
  /\ scanned' = 0 /\ errors' = 0 /\ scanned_paths' = {}
  /\ idx' = 0
  /\ last' = NoLast
  /\ consulted' = FALSE
  /\ IF roots'.library_roots = {}
       THEN /\ SetTables(_remove_missing_song_files(Tables, {}))
            /\ files' = {}
            /\ result' = Some(<<0, 0, 0>>)
            /\ pc' = "done"
            /\ clean' = TRUE
       ELSE /\ files' = _collect_abc_files(roots'.library_roots,
                                           roots'.exclude_paths, fs)
            /\ result' = None
            /\ pc' = "loop"
            /\ clean' = FALSE
            /\ UNCHANGED catalogVars
  /\ UNCHANGED <<fs, cfg, fsOps, userOps, probe, parsed_files>>

\* Lines 142-218: one iteration of the loop.  rglob yields the files in an
\* order the file system chooses: the next file is any file not yet visited.
ScanFile ==
  /\ pc = "loop"
  /\ \E path \in files \ scanned_paths :
      LET file == IF path \in DOMAIN fs /\ fs[path].readable THEN Some(fs[path]) ELSE None
      IN  \E d \in Decisions({s.id : s \in Song}) :
          \E r \in {scan_file([Song |-> Song, SongFile |-> SongFile,
                                Instrument |-> Instrument],
                               path, file, roots, on_duplicate, d, scanned, errors)} :
            LET asked == r.branch \in {"link", "separate", "ignore", "raise"}
            IN  /\ d \in Decisions(r.existing_ids)
                /\ Song' = r.cat.Song
                /\ SongFile' = r.cat.SongFile
                /\ Instrument' = r.cat.Instrument
                /\ scanned' = r.scanned
                /\ errors' = r.errors
                /\ scanned_paths' = scanned_paths \cup {path}
                /\ last' = [path |-> path, branch |-> r.branch,
                            existing_ids |-> r.existing_ids,
                            d |-> IF asked THEN d ELSE NotAsked]
                /\ consulted' = (consulted \/ asked)
                /\ IF r.branch = "raise"
                     THEN pc' = "raised" /\ idx' = idx
                     ELSE pc' = "loop" /\ idx' = idx + 1
  /\ UNCHANGED <<probe, parsed_files, fs, cfg, fsOps, userOps, clean, on_duplicate, roots, files, result,
                 startCat, rescan, scans, PlayLog, SetlistItem,
                 SetlistBandAssignment, SongLayout, SongLayoutAssignment>>

\* A plausible slip: found is computed from the two counters.
FinishScan_found_from_counters ==
  /\ pc = "loop"
  /\ scanned_paths = files
  /\ SetTables(_remove_missing_song_files(Tables, scanned_paths))
  /\ result' = Some(<<scanned + errors, scanned, errors>>)
  /\ pc' = "done"
  /\ clean' = TRUE
  /\ UNCHANGED <<probe, parsed_files, fs, cfg, fsOps, userOps, on_duplicate, roots, files, idx, scanned,
                 errors, scanned_paths, last, consulted, startCat, rescan, scans>>

\* Lines 220-222: reconcile and return.
FinishScan ==
  /\ pc = "loop"
  /\ scanned_paths = files
  /\ SetTables(_remove_missing_song_files(Tables, scanned_paths))
  /\ result' = Some(<<Cardinality(files), scanned, errors>>)
  /\ pc' = "done"
  /\ clean' = TRUE
  /\ UNCHANGED <<probe, parsed_files, fs, cfg, fsOps, userOps, on_duplicate, roots, files, idx, scanned,
                 errors, scanned_paths, last, consulted, startCat, rescan, scans>>

Next ==
  \/ WriteFile \/ RemoveFile \/ MoveFile \/ Chmod
  \/ SetLotroRoot \/ SetExcludeRule
  \/ LogPlay \/ AddSongLayout \/ SetSongLayoutAssignment
  \/ AddSetlistItem \/ AddSetlistBandAssignment
  \/ StartScan \/ ScanFile \/ FinishScan

Spec == Init /\ [][Next]_vars

(***************************************************************************)
(* Properties.                                                             *)
(***************************************************************************)
SongIds == {s.id : s \in Song}

\* The logical identity of a cataloged Song, computed as for a parsed file.
SongIdentity(s) ==
  [title |-> _normalize_title(s.title),
   composers |-> PyStrip(s.composers),
   part_count |-> Len(s.parts)]

FileIdentity(p) == logical_identity(parse_abc_file(fs[p].content))

Readable(p) == p \in DOMAIN fs /\ fs[p].readable

HasSongFile(p) == \E f \in SongFile : f.file_path = p

IsPrimary(p) ==
  _classify_path(p, roots.library_roots, roots.set_roots,
                 roots.exclude_paths).is_primary

\* The step is the loop iteration of run_scan over the file at p.
Visits(p) ==
  /\ pc = "loop"
  /\ p \in files \ scanned_paths
  /\ scanned_paths' = scanned_paths \cup {p}

\* The step is a reconciliation: run_scan returns.
Reconciles == pc' = "done" /\ (pc = "loop" \/ scans' # scans)

CatalogUntouched ==
  Song' = Song /\ SongFile' = SongFile /\ Instrument' = Instrument

\* C1: run_scan is idempotent: a scan that starts right after a completed scan
\* with the same policy argument, with no change to the files or the
\* configuration in between, and in which the policy is given nothing new to
\* decide, ends with the Songs and SongFiles it started from.
C1_Idempotent ==
  (pc = "done" /\ rescan /\ ~consulted)
    => [Song |-> Song, SongFile |-> SongFile] = startCat

\* C2: after every completed run_scan every SongFile has a path the scan
\* enumerated and every Song has at least one SongFile.
C2_ReconciliationComplete ==
  pc = "done" =>
    /\ \A f \in SongFile : f.file_path \in files
    /\ \A s \in Song : \E f \in SongFile : f.song_id = s.id

\* A scan completed that removed a SongFile whose path it did not enumerate and
\* the Song left without files, and kept another Song.
C2_Witness ==
  /\ pc = "done"
  /\ Song # {}
  /\ \E f \in startCat.SongFile : f.file_path \notin files
  /\ \E s \in startCat.Song : s.id \notin SongIds

\* C3: reconciliation deletes exactly the Songs left with no SongFile, deletes
\* the PlayLog, SetlistItem (with SetlistBandAssignment) and SongLayout (with
\* SongLayoutAssignment) rows of the deleted Songs, leaves the dependent rows
\* of the other Songs as they were, and leaves no row that refers to a row that
\* is gone.
C3_Cascade ==
  [][Reconciles =>
       LET kept == {s.id : s \in Song'}
       IN  /\ Song' \subseteq Song
           /\ \A s \in Song :
                (s \in Song') <=> (\E f \in SongFile' : f.song_id = s.id)
           /\ PlayLog' = {r \in PlayLog : r.song_id \in kept}
           /\ SetlistItem' = {i \in SetlistItem : i.song_id \in kept}
           /\ SetlistBandAssignment' =
                {a \in SetlistBandAssignment :
                   \E i \in SetlistItem' : i.id = a.setlist_item_id}
           /\ SongLayout' = {l \in SongLayout : l.song_id \in kept}
           /\ SongLayoutAssignment' =
                {a \in SongLayoutAssignment :
                   \E l \in SongLayout' : l.id = a.song_layout_id}
           /\ \A f \in SongFile' : f.song_id \in kept
           /\ \A i \in SetlistItem' :
                i.song_layout_id # None =>
                  \E l \in SongLayout' : l.id = Get(i.song_layout_id)
           /\ \A a \in SetlistBandAssignment \ SetlistBandAssignment' :
                \E i \in SetlistItem \ SetlistItem' : i.id = a.setlist_item_id
           /\ \A a \in SongLayoutAssignment \ SongLayoutAssignment' :
                \E l \in SongLayout \ SongLayout' : l.id = a.song_layout_id
    ]_vars

\* A scan completed that deleted a Song that had been played, with its play
\* history, and kept another Song.
C3_Witness ==
  /\ pc = "done"
  /\ PlayLog = {}
  /\ Song # {}
  /\ \E s \in startCat.Song : s.total_plays > 0 /\ s.id \notin SongIds

\* C4: when the file at a path with no SongFile is primary, has the logical
\* identity of an existing Song S and the policy answers LINK(S), the iteration
\* adds exactly one SongFile, for that path and attached to S, and leaves
\* every Song as it was.
C4_Link ==
  [][\A p \in Paths : \A S \in Song :
       ( /\ Visits(p)
         /\ Readable(p) /\ ~HasSongFile(p) /\ IsPrimary(p)
         /\ SongIdentity(S) = FileIdentity(p)
         /\ last'.d = Tuple("link", Some(S.id)) )
       => /\ Song' = Song
          /\ \E f \in SongFile' \ SongFile :
               /\ SongFile' = SongFile \cup {f}
               /\ f.file_path = p
               /\ f.song_id = S.id
               /\ \A g \in SongFile : g.id # f.id
          /\ {f \in SongFile' : f.song_id = S.id /\ f.file_path # p}
               = {f \in SongFile : f.song_id = S.id}
          /\ scanned' = scanned + 1
    ]_vars

\* A scan completed whose last file was linked to the one Song of the catalog.
C4_Witness ==
  /\ pc = "done"
  /\ last.branch = "link"
  /\ last.d.action = "link"
  /\ Cardinality(Song) = 1
  /\ Cardinality({f \in SongFile : f.song_id \in SongIds}) = 2

\* C5: when the policy answers IGNORE for a new primary file, the iteration
\* writes nothing to the catalog and does not count the file as scanned, the
\* loop goes on, and the scan completes only when every enumerated file has
\* been visited.
C5_Ignore ==
  [][ /\ \A p \in Paths :
           ( /\ Visits(p)
             /\ Readable(p) /\ ~HasSongFile(p) /\ IsPrimary(p)
             /\ last'.d = Tuple("ignore", None) )
           => /\ CatalogUntouched
              /\ ~HasSongFile(p)'
              /\ scanned' = scanned /\ errors' = errors
              /\ pc' = "loop" /\ files' = files
      /\ (pc = "loop" /\ pc' = "done") => scanned_paths = files
    ]_vars

\* The policy has just answered IGNORE and files remain to be visited.
C5_Witness ==
  /\ pc = "loop"
  /\ last.d = Tuple("ignore", None)
  /\ last.branch = "ignore"
  /\ files \ scanned_paths # {}

\* C6: for a readable file at a path with no SongFile, when the policy answers
\* SEPARATE, or when no Song has the file's logical identity, the iteration
\* creates exactly one Song and exactly one SongFile, for the path and attached
\* to the new Song, and leaves every existing Song as it was.
C6_SeparateOrNoMatch ==
  [][\A p \in Paths :
       ( /\ Visits(p)
         /\ Readable(p) /\ ~HasSongFile(p)
         /\ \/ last'.d = Tuple("separate", None)
            \/ \A s \in Song : SongIdentity(s) # FileIdentity(p) )
       => \E s \in Song' \ Song : \E f \in SongFile' \ SongFile :
            /\ Song' = Song \cup {s}
            /\ s.id \notin SongIds
            /\ SongFile' = SongFile \cup {f}
            /\ \A g \in SongFile : g.id # f.id
            /\ f.file_path = p
            /\ f.song_id = s.id
    ]_vars

\* A scan of an empty catalog completed in which the first file matched no
\* Song and the policy answered SEPARATE for the second.
C6_Witness ==
  /\ pc = "done"
  /\ startCat.Song = {}
  /\ last.d = Tuple("separate", None)
  /\ Cardinality(Song) = 2
  /\ Cardinality(SongFile) = 2

\* C7: when the file cannot be parsed the iteration adds one to the error
\* counter, writes nothing to the catalog and the loop goes on; when the scan
\* completes every enumerated file has been visited, the SongFile rows of the
\* path of a file that failed are the rows the catalog held for it when the
\* scan started, and the Songs they belong to are still there.
C7_ParseFailureIsolated ==
  [][ /\ \A p \in Paths :
           (Visits(p) /\ ~Readable(p))
           => /\ errors' = errors + 1
              /\ scanned' = scanned
              /\ CatalogUntouched
              /\ pc' = "loop" /\ files' = files
      /\ (pc = "loop" /\ pc' = "done")
           => /\ scanned_paths = files
              /\ \A p \in files :
                   ~Readable(p) =>
                     /\ {f \in SongFile' : f.file_path = p}
                          = {f \in startCat.SongFile : f.file_path = p}
                     /\ \A f \in startCat.SongFile :
                          f.file_path = p => f.song_id \in {s.id : s \in Song'}
    ]_vars

\* A scan completed that failed to parse a file the catalog held, and
\* processed another file.
C7_Witness ==
  /\ pc = "done"
  /\ errors = 1
  /\ scanned >= 1
  /\ \E p \in files : ~Readable(p) /\ HasSongFile(p)

\* C8: no failure of an iteration escapes: run_scan never ends by raising.
C8_NoFailureEscapes == pc # "raised"

\* C9: whenever the policy is asked and hands back anything but LINK with a
\* song id or SEPARATE (IGNORE, LINK without an id, an unknown action, or no
\* decision at all), the iteration writes nothing to the catalog, does not
\* count the file as scanned, and the loop goes on.
C9_NonResponseIsIgnore ==
  [][\A p \in Paths :
       ( /\ pc = "loop"
         /\ p \in files \ scanned_paths
         /\ last'.path = p
         /\ last'.d.kind \in {"tuple", "none"}
         /\ ~(last'.d.action = "link" /\ last'.d.link_song_id # None)
         /\ last'.d.action # "separate" )
       => /\ CatalogUntouched
          /\ scanned' = scanned /\ errors' = errors
          /\ pc' = "loop"
    ]_vars

\* C10: when no library root resolves, run_scan enumerates nothing, leaves no
\* SongFile, no Song and no dependent row, and returns (0, 0, 0).
C10_NoLibraryRoots ==
  (pc = "done" /\ get_enabled_roots(cfg).library_roots = {})
    => /\ files = {} /\ scanned_paths = {}
       /\ SongFile = {} /\ Song = {}
       /\ PlayLog = {} /\ SetlistItem = {} /\ SetlistBandAssignment = {}
       /\ SongLayout = {} /\ SongLayoutAssignment = {}
       /\ result = Some(<<0, 0, 0>>)

\* A scan without library roots completed on a catalog that held a Song that
\* had a dependent row.
C10_Witness ==
  /\ pc = "done"
  /\ get_enabled_roots(cfg).library_roots = {}
  /\ startCat.SongFile # {}
  /\ \E s \in startCat.Song : s.total_plays > 0
  /\ result = Some(<<0, 0, 0>>)

\* C11: run_scan returns (found, scanned, errors): found is the number of
\* enumerated files, scanned the number of enumerated files that parse and are
\* in the catalog, errors the number of files that do not parse; the files in
\* neither count are files the policy was asked about, and scanned + errors
\* plus their number is found.
C11_ResultCounts ==
  pc = "done" =>
    LET cataloged == {p \in files : Readable(p) /\ HasSongFile(p)}
        failed == {p \in files : ~Readable(p)}
        ignored == {p \in files : Readable(p) /\ ~HasSongFile(p)}
    IN  /\ result = Some(<<Cardinality(files), Cardinality(cataloged),
                           Cardinality(failed)>>)
        /\ scanned = Cardinality(cataloged)
        /\ errors = Cardinality(failed)
        /\ scanned + errors + Cardinality(ignored) = Cardinality(files)
        /\ scanned + errors <= Cardinality(files)
        /\ ignored # {} => consulted

\* A scan of two files completed that cataloged one and ignored the other.
C11_Witness ==
  /\ pc = "done"
  /\ result = Some(<<2, 1, 0>>)
  /\ consulted
  /\ Cardinality(SongFile) = 1

(***************************************************************************)
(* Functions called on their own.  Each specification below starts from    *)
(* the arguments of one call, drawn from a bounded set, and its action is  *)
(* the call; the application does not run.                                 *)
(***************************************************************************)
\* The subsets of S with at most n elements.
SubsetsUpTo(S, n) == {T \in SUBSET S : Cardinality(T) <= n}

MaxRoots == 2

ExportDir == <<"E">>

ClassifyRoots == {MusicDir, SetDir, OldDir, ExportDir}

ClassifyPaths == Paths \cup {<<"M", "s", "d">>, <<"E", "e">>, <<"N", "n">>}

ClassifyInit ==
  /\ AppInit
  /\ probe \in [op : {"classify"}, path : ClassifyPaths,
                library_roots : SubsetsUpTo(ClassifyRoots, MaxRoots),
                set_roots : SubsetsUpTo(ClassifyRoots, MaxRoots),
                exclude_paths : SubsetsUpTo(ClassifyRoots, MaxRoots),
                out : {None}]

Classify ==
  /\ probe.op = "classify"
  /\ probe.out = None
  /\ probe' = [probe EXCEPT !.out =
                 Some(_classify_path(probe.path, probe.library_roots,
                                     probe.set_roots, probe.exclude_paths))]
  /\ UNCHANGED appVars

ClassifySpec == ClassifyInit /\ [][Classify]_vars

\* root is path or a directory above it.
LiesUnder(path, root) ==
  \E n \in 0..Len(path) : root = [k \in 1..n |-> path[k]]

\* C12: _classify_path sets exactly one of its three flags: scan_excluded when
\* the path lies under an exclude path, whatever else it lies under;
\* otherwise is_set_copy when it lies under an export root and under no
\* library root; otherwise is_primary.
C12_Classification ==
  (probe.op = "classify" /\ probe.out # None) =>
    LET r == Get(probe.out)
        excl == \E d \in probe.exclude_paths : LiesUnder(probe.path, d)
        lib == \E d \in probe.library_roots : LiesUnder(probe.path, d)
        exp == \E d \in probe.set_roots : LiesUnder(probe.path, d)
    IN  /\ Cardinality({f \in {"is_primary", "is_set_copy", "scan_excluded"} : r[f]}) = 1
        /\ r.scan_excluded <=> excl
        /\ r.is_set_copy <=> (~excl /\ exp /\ ~lib)
        /\ r.is_primary <=> (~excl /\ (lib \/ ~exp))

\* A path under an exclude path and under a library root was classified.
C12_Witness ==
  /\ probe.op = "classify"
  /\ probe.out # None
  /\ \E d \in probe.exclude_paths : LiesUnder(probe.path, d)
  /\ \E d \in probe.library_roots : LiesUnder(probe.path, d)
  /\ Get(probe.out).scan_excluded

(***************************************************************************)
(* logical_identity on two parsed songs.                                   *)
(***************************************************************************)
MaxTitleLen == 2

TitleChars == {"R", "r", "É", " ", "\t"}

\* The texts of at most n characters.
TextsUpTo(n) == UNION {[1..k -> TitleChars] : k \in 0..n}

ComposerTexts == {<<"T">>, <<"t">>, <<" ", "T", "\t">>, <<"T", " ">>}

\* n parts without name and hint.
BareParts(n) == [k \in 1..n |-> PartInfo(k, None, None)]

IdentityInit ==
  /\ AppInit
  /\ \E ta \in TextsUpTo(MaxTitleLen), tb \in TextsUpTo(MaxTitleLen),
        cb \in ComposerTexts, nb \in 1..2 :
       probe = [op |-> "identity",
                a |-> ParsedSong(ta, <<"T">>, None, None, None, BareParts(1)),
                b |-> ParsedSong(tb, cb, None, None, None, BareParts(nb)),
                out |-> None]

Identity ==
  /\ probe.op = "identity"
  /\ probe.out = None
  /\ probe' = [probe EXCEPT !.out =
                 Some(<<logical_identity(probe.a), logical_identity(probe.b)>>)]
  /\ UNCHANGED appVars

IdentitySpec == IdentityInit /\ [][Identity]_vars

\* c is t without the whitespace around it.
IsTrimOf(c, t) ==
  \E i \in 0..Len(t), j \in 0..Len(t) :
    /\ i + j <= Len(t)
    /\ \A k \in 1..i : t[k] \in Whitespace
    /\ \A k \in (Len(t) - j + 1)..Len(t) : t[k] \in Whitespace
    /\ c = [k \in 1..(Len(t) - i - j) |-> t[i + k]]
    /\ c # <<>> => (c[1] \notin Whitespace /\ c[Len(c)] \notin Whitespace)

CasePairs == {{"R", "r"}, {"É", "é"}, {"F", "f"}}

UpperCase == {"R", "É", "F"}

\* c and d are the same text up to the case of their letters.
SameUpToCase(c, d) ==
  /\ Len(c) = Len(d)
  /\ \A k \in 1..Len(c) : c[k] = d[k] \/ {c[k], d[k]} \in CasePairs

\* The parts of text t, found by looking at t alone.
Trims(t) == {c \in {SubSeq(t, i, j) : i \in 1..(Len(t) + 1), j \in 0..Len(t)} : IsTrimOf(c, t)}

\* C13: logical_identity returns the title trimmed and in lower case, the
\* composers trimmed with their case kept, and the number of parts; two parsed
\* songs whose titles differ only in surrounding whitespace or letter case,
\* with equal trimmed composers and equal part counts, have the same identity,
\* and songs whose trimmed composers or part counts differ have different
\* identities.
C13_IdentityNormalization ==
  (probe.op = "identity" /\ probe.out # None) =>
    LET a == probe.a
        b == probe.b
        ia == Get(probe.out)[1]
        ib == Get(probe.out)[2]
        sameTitle == \E c \in Trims(a.title), d \in Trims(b.title) : SameUpToCase(c, d)
        sameComposers == \E c \in Trims(a.composers) : IsTrimOf(c, b.composers)
        sameCount == Len(a.parts) = Len(b.parts)
    IN  /\ \A x \in {<<a, ia>>, <<b, ib>>} :
             /\ \E c \in Trims(x[1].title) : SameUpToCase(c, x[2].title)
             /\ \A k \in 1..Len(x[2].title) : x[2].title[k] \notin UpperCase
             /\ IsTrimOf(x[2].composers, x[1].composers)
             /\ x[2].part_count = Len(x[1].parts)
        /\ (sameTitle /\ sameComposers /\ sameCount) => ia = ib
        /\ (~sameComposers \/ ~sameCount) => ia # ib
        /\ ~sameTitle => ia # ib

\* The identities of two songs whose titles differ in case and in the
\* whitespace around them, with the same composers and part count, were taken.
C13_Witness ==
  /\ probe.op = "identity"
  /\ probe.out # None
  /\ probe.a.title = <<"R">>
  /\ probe.b.title = <<" ", "r">>
  /\ probe.b.composers = <<"T", " ">>
  /\ Len(probe.b.parts) = 1
  /\ Get(probe.out)[1] = Get(probe.out)[2]

\* C14: the lookup normalizes as logical_identity does: a Song the scan has
\* just stored from a file is among the Songs find_song_by_logical_identity
\* returns for the logical identity of that file, and every Song it returns
\* has that logical identity.
C14_LookupMatchesIdentity ==
  [][\A p \in Paths :
       (Visits(p) /\ Readable(p)) =>
         LET found == find_song_by_logical_identity(Song', FileIdentity(p))
         IN  /\ \A s \in Song' \ Song :
                  (\E f \in SongFile' : f.file_path = p /\ f.song_id = s.id)
                    => s.id \in found
             /\ \A s \in Song' : s.id \in found => SongIdentity(s) = FileIdentity(p)
    ]_vars

(***************************************************************************)
(* parse_abc_content on header lines.                                      *)
(***************************************************************************)
MaxHeaderLines == 3

HeaderValues == {<<>>, <<"A">>, <<"B">>, <<" ", "C", " ">>}

HeaderPool ==
  {TagLine(SongTitleTag, <<"A">>), TagLine(SongTitleTag, <<>>),
   HeaderLine("T", <<"B">>), HeaderLine("T", <<" ", "C", " ">>), HeaderLine("T", <<>>),
   TagLine(SongComposerTag, <<"A">>),
   HeaderLine("C", <<"B">>), HeaderLine("C", <<>>),
   TagLine(SongTranscriberTag, <<"A">>),
   HeaderLine("Z", <<"B">>)}

\* The contents of at most n lines taken from pool.
ContentsUpTo(pool, n) == UNION {[1..k -> pool] : k \in 0..n}

ParseHeadersInit ==
  /\ AppInit
  /\ probe \in [op : {"headers"}, content : ContentsUpTo(HeaderPool, MaxHeaderLines),
                filename : {None, Some(FileName)}, out : {None}]

ParseHeaders ==
  /\ probe.op = "headers"
  /\ probe.out = None
  /\ probe' = [probe EXCEPT !.out = Some(parse_abc_content(probe.content, probe.filename))]
  /\ UNCHANGED appVars

ParseHeadersSpec == ParseHeadersInit /\ [][ParseHeaders]_vars

\* The values the lines of content give to tag name.
TagValuesIn(content, name) ==
  {v \in HeaderValues : \E k \in 1..Len(content) : content[k] = TagLine(name, v)}

\* The trimmed value of the first header line of content for letter, the
\* empty text when there is none.
FirstHeaderIn(content, letter) ==
  LET at == {k \in 1..Len(content) :
               \E v \in HeaderValues : content[k] = HeaderLine(letter, v)}
  IN  IF at = {} THEN <<>>
      ELSE LET k == CHOOSE x \in at : \A y \in at : x <= y
               v == CHOOSE w \in HeaderValues : content[k] = HeaderLine(letter, w)
           IN  CHOOSE c \in Trims(v) : TRUE

\* The first non-empty text of chain, the empty text when there is none.
RECURSIVE FirstNonEmpty(_)
FirstNonEmpty(chain) ==
  IF chain = <<>> THEN <<>>
  ELSE IF Head(chain) # <<>> THEN Head(chain) ELSE FirstNonEmpty(Tail(chain))

\* The value of a tag that occurs at most once, the empty text without it.
TheTag(values) == IF values = {} THEN <<>> ELSE CHOOSE v \in values : TRUE

\* C15: for a content in which no tag is given two different values,
\* parse_abc_content takes the first non-empty value of each chain: title from
\* the song-title tag, the first T: line, the file name, "Unknown"; composers
\* from the song-composer tag, the first C: line, "Unknown"; transcriber from
\* the song-transcriber tag, the first Z: line, and is absent without them.
\* A T: line is not used when the song-title tag has a value, wherever the
\* lines are.
C15_PrecedenceChains ==
  (probe.op = "headers" /\ probe.out # None) =>
    LET c == probe.content
        r == Get(probe.out)
        titles == TagValuesIn(c, SongTitleTag)
        composers == TagValuesIn(c, SongComposerTag)
        transcribers == TagValuesIn(c, SongTranscriberTag)
        z == FirstNonEmpty(<<TheTag(transcribers), FirstHeaderIn(c, "Z")>>)
    IN  /\ Cardinality(titles) <= 1 =>
             r.title = FirstNonEmpty(<<TheTag(titles), FirstHeaderIn(c, "T"),
                                       OrEmpty(probe.filename), UnknownText>>)
        /\ Cardinality(composers) <= 1 =>
             r.composers = FirstNonEmpty(<<TheTag(composers), FirstHeaderIn(c, "C"),
                                           UnknownText>>)
        /\ Cardinality(transcribers) <= 1 =>
             r.transcriber = (IF z = <<>> THEN None ELSE Some(z))
        /\ titles = {<<"A">>} => r.title = <<"A">>

\* A content with a T: line before its song-title tag was parsed and the
\* title is the tag's.
C15_Witness ==
  /\ probe.op = "headers"
  /\ probe.out # None
  /\ probe.content = <<HeaderLine("T", <<"B">>), TagLine(SongTitleTag, <<"A">>)>>
  /\ Get(probe.out).title = <<"A">>
  /\ Get(probe.out).composers = UnknownText
  /\ Get(probe.out).transcriber = None

(***************************************************************************)
(* parse_abc_content on the song-duration tag.                             *)
(***************************************************************************)
MaxDurationLen == 4

DurationChars == {"1", "3", "0", "6", ":", "-", "+", " ", "x"}

DurationValues == UNION {[1..k -> DurationChars] : k \in 0..MaxDurationLen}

\* Lines that carry a time in other fields than the song-duration tag.
OtherTimedLines ==
  <<HeaderLine("T", <<"1", ":", "3", "0">>),
    TagLine(SongTitleTag, <<"1", ":", "3", "0">>),
    HeaderLine("Q", <<"1", ":", "3", "0">>),
    TagLine(ExportTimestampTag, <<"1", ":", "3", "0">>)>>

DurationContent(others, value) ==
  (IF others THEN OtherTimedLines ELSE <<>>)
    \o (IF value = None THEN <<>> ELSE <<TagLine(SongDurationTag, Get(value))>>)

ParseDurationInit ==
  /\ AppInit
  /\ probe \in [op : {"duration"}, others : BOOLEAN,
                value : {None} \cup {Some(v) : v \in DurationValues}, out : {None}]

ParseDuration ==
  /\ probe.op = "duration"
  /\ probe.out = None
  /\ probe' = [probe EXCEPT !.out =
                 Some(parse_abc_content(DurationContent(probe.others, probe.value), None))]
  /\ UNCHANGED appVars

ParseDurationSpec == ParseDurationInit /\ [][ParseDuration]_vars

RECURSIVE Pow10(_)
Pow10(n) == IF n = 0 THEN 1 ELSE 10 * Pow10(n - 1)

\* The integers that text is a decimal numeral of: surrounding blanks and one
\* sign are allowed, as int() of Python reads it.  Empty when text is no
\* numeral.
IntegersOf(text) ==
  LET lead == {k \in 1..Len(text) : text[k] # " "}
  IN  IF lead = {} THEN {}
      ELSE
        LET lo == CHOOSE k \in lead : \A l \in lead : k <= l
            hi == CHOOSE k \in lead : \A l \in lead : l <= k
            first == IF text[lo] \in {"+", "-"} THEN lo + 1 ELSE lo
            magnitude == IF first > hi THEN 0
                         ELSE LET Weighted[k \in first..hi] ==
                                    DigitValue(text[k]) * Pow10(hi - k)
                                    + (IF k = hi THEN 0 ELSE Weighted[k + 1])
                              IN  Weighted[first]
        IN  IF first <= hi /\ \A k \in first..hi : text[k] \in Digits
              THEN {IF text[lo] = "-" THEN 0 - magnitude ELSE magnitude}
              ELSE {}

\* The duration the tag value stands for: m * 60 + s when it is m:s with m
\* and s integers, m >= 0 and 0 <= s < 60, absent otherwise.
DurationOf(value) ==
  LET colons == {k \in 1..Len(value) : value[k] = ":"}
  IN  IF Cardinality(colons) # 1 THEN None
      ELSE LET k == CHOOSE c \in colons : TRUE
               ms == IntegersOf(SubSeq(value, 1, k - 1))
               ss == IntegersOf(SubSeq(value, k + 1, Len(value)))
           IN  IF \E m \in ms, sec \in ss : m >= 0 /\ 0 <= sec /\ sec < 60
                 THEN LET m == CHOOSE x \in ms : TRUE
                          sec == CHOOSE x \in ss : TRUE
                      IN  Some(m * 60 + sec)
                 ELSE None

\* C16: the duration of a parsed content is m * 60 + s when the value of its
\* song-duration tag is m:s with m and s non-negative integers (decimal
\* numerals as int() reads them) and s < 60, and is absent for every other
\* value and without the tag, whatever times the other fields carry.
C16_Duration ==
  (probe.op = "duration" /\ probe.out # None) =>
    Get(probe.out).duration_seconds =
      (IF probe.value = None THEN None ELSE DurationOf(Get(probe.value)))

\* The value "1:30" was parsed to 90 seconds.
C16_Witness ==
  /\ probe.op = "duration"
  /\ probe.out # None
  /\ probe.value = Some(<<"1", ":", "3", "0">>)
  /\ Get(probe.out).duration_seconds = Some(90)

(***************************************************************************)
(* parse_abc_content on part blocks.                                       *)
(***************************************************************************)
MaxPartLines == 4

\* The index-marker lines of the pool and the integer each carries.
MarkerNumbers ==
  (MarkerLine(<<"1">>) :> 1) @@ (MarkerLine(<<" ", "2">>) :> 2) @@ (<<"x", ":", "1">> :> 1)

PartNameValues == {<<"p">>, <<>>}

MadeForValues == {<<"f">>}

PartPool ==
  DOMAIN MarkerNumbers
    \cup {MarkerLine(<<>>), HeaderLine("T", <<"t">>)}
    \cup {TagLine(PartNameTag, v) : v \in PartNameValues}
    \cup {TagLine(MadeForTag, v) : v \in MadeForValues}

ParsePartsInit ==
  /\ AppInit
  /\ probe \in [op : {"parts"}, content : ContentsUpTo(PartPool, MaxPartLines),
                out : {None}]

ParseParts ==
  /\ probe.op = "parts"
  /\ probe.out = None
  /\ probe' = [probe EXCEPT !.out = Some(parse_abc_content(probe.content, None))]
  /\ UNCHANGED appVars

ParsePartsSpec == ParsePartsInit /\ [][ParseParts]_vars

\* The positions of the index-marker lines of content.
MarkersIn(content) == {k \in 1..Len(content) : content[k] \in DOMAIN MarkerNumbers}

\* The positions between the marker at k and the next marker or the end.
BlockOf(content, k) ==
  {l \in (k + 1)..Len(content) : \A m \in MarkersIn(content) : m > k => l < m}

\* What the lines at the positions in block say for tag name: the values
\* given, an empty value standing for none.
SaidIn(content, block, name, values) ==
  {IF v = <<>> THEN None ELSE Some(v) :
     v \in {w \in values : \E l \in block : content[l] = TagLine(name, w)}}

\* C17: parse_abc_content records one part per index-marker line, in file
\* order, numbered with the marker's integer also when numbers repeat or are
\* out of order; the name and the instrument hint of a part are among those
\* the part-name and made-for tags say between its marker and the next
\* marker or the end, and are absent when its block has no such tag.
C17_Parts ==
  (probe.op = "parts" /\ probe.out # None) =>
    LET c == probe.content
        parts == Get(probe.out).parts
        markers == MarkersIn(c)
    IN  /\ Len(parts) = Cardinality(markers)
        /\ \A k \in markers :
             LET part == parts[Cardinality({m \in markers : m <= k})]
                 names == SaidIn(c, BlockOf(c, k), PartNameTag, PartNameValues)
                 hints == SaidIn(c, BlockOf(c, k), MadeForTag, MadeForValues)
             IN  /\ part.part_number = MarkerNumbers[c[k]]
                 /\ part.part_name \in (IF names = {} THEN {None} ELSE names)
                 /\ part.made_for \in (IF hints = {} THEN {None} ELSE hints)

\* A content with the markers 2, 1, 1 was parsed: three parts numbered 2, 1, 1,
\* the first with the hint of its block, the others bare.
C17_Witness ==
  /\ probe.op = "parts"
  /\ probe.out # None
  /\ probe.content = <<MarkerLine(<<" ", "2">>), TagLine(MadeForTag, <<"f">>),
                        MarkerLine(<<"1">>), <<"x", ":", "1">> >>
  /\ Len(Get(probe.out).parts) = 3
  /\ Get(probe.out).parts[1] = PartInfo(2, None, Some(<<"f">>))
  /\ Get(probe.out).parts[2] = PartInfo(1, None, None)
  /\ Get(probe.out).parts[3] = PartInfo(1, None, None)

(***************************************************************************)
(* Instruments and SongFile rows of the catalog.                           *)
(***************************************************************************)

\* C18: instrument hints that differ only in letter case resolve to one
\* Instrument: the catalog never holds two Instrument rows whose names are
\* the same up to case.
C18_OneInstrumentPerName ==
  \A i \in Instrument, j \in Instrument :
    SameUpToCase(i.name, j.name) => i.id = j.id

\* C19: every part stored on a Song references an Instrument of the catalog,
\* the "Unknown" entry standing in for a blank or missing hint.
C19_BlankHintIsUnknown ==
  \A s \in Song : \A k \in 1..Len(s.parts) :
    \E i \in Instrument : s.parts[k].instrument_id = Some(i.id)

\* C20: each file path has at most one SongFile, and every SongFile
\* references a Song of the catalog.
C20_SongFileAssociation ==
  /\ \A f \in SongFile, g \in SongFile : f.file_path = g.file_path => f = g
  /\ \A f \in SongFile : Cardinality({s \in Song : s.id = f.song_id}) = 1

\* A scan completed in which the policy was consulted and two files are
\* cataloged under one Song.
C20_Witness ==
  /\ pc = "done"
  /\ consulted
  /\ \E f \in SongFile, g \in SongFile :
       f.file_path # g.file_path /\ f.song_id = g.song_id /\ f.song_id \in SongIds

(***************************************************************************)
(* A scan that is interrupted.  ensure_song_from_parsed commits the Song   *)
(* and its SongFile together, after _get_or_create_by_name has committed   *)
(* each Instrument it created; what is not committed is lost.              *)
(***************************************************************************)
Interrupted(commits, instruments) ==
  /\ pc = "loop"
  /\ probe = NoProbe
  /\ pc' = "raised"
  /\ scans' = scans - 1        \* the bound counts the scans that are not interrupted
  /\ Instrument' = instruments
  /\ probe' = [op |-> "interrupted", commits |-> commits,
               cataloged |-> {f.file_path : f \in SongFile}]
  /\ UNCHANGED <<parsed_files, fs, cfg, fsOps, userOps, clean, on_duplicate, roots,
                 files, idx, scanned, errors, scanned_paths, result, last,
                 consulted, startCat, rescan, PlayLog, SetlistItem,
                 SetlistBandAssignment, SongLayout, SongLayoutAssignment>>

\* A plausible slip: the Song is committed before its SongFile is written.
Crash_between_song_and_file ==
  /\ \E path \in {q \in files \ scanned_paths : q \in DOMAIN fs /\ fs[q].readable} :
       LET parsed == parse_abc_file(fs[path].content)
           pj == _parts_to_json(parsed, Instrument)
       IN  /\ Interrupted(Cardinality(scanned_paths), pj.instruments)
           /\ Song' = Song \cup
                {[id |-> NextId(Song), title |-> parsed.title,
                  composers |-> parsed.composers,
                  duration_seconds |-> parsed.duration_seconds,
                  transcriber |-> parsed.transcriber,
                  rating |-> None, status_id |-> None, notes |-> None, lyrics |-> None,
                      last_played_at |-> None, total_plays |-> 0,
                  parts |-> pj.json, created_at |-> _now]}
  /\ UNCHANGED SongFile

\* The process stops between two commits: after the commit of a file, or
\* after the commit of the Instruments of the next file.
Crash ==
  /\ \E instruments \in {Instrument} \cup
        {_parts_to_json(parse_abc_file(fs[q].content), Instrument).instruments :
           q \in {r \in files \ scanned_paths : r \in DOMAIN fs /\ fs[r].readable}} :
       Interrupted(Cardinality(scanned_paths), instruments)
  /\ UNCHANGED <<Song, SongFile>>

\* The file system changes before the interruption only: the scan that
\* follows it sees the file system the interrupted scan saw.
ChangeBeforeCrash ==
  /\ probe = NoProbe
  /\ (WriteFile \/ RemoveFile \/ MoveFile \/ Chmod \/ SetLotroRoot \/ SetExcludeRule)

CrashNext == ChangeBeforeCrash \/ StartScan \/ ScanFile \/ FinishScan \/ Crash

CrashSpec == Init /\ [][CrashNext]_vars

\* What the scan stores on a Song from a parsed file.
Metadata(parsed, instruments) ==
  [title |-> parsed.title, composers |-> parsed.composers,
   duration_seconds |-> parsed.duration_seconds, transcriber |-> parsed.transcriber,
   parts |-> _parts_to_json(parsed, instruments).json]

SongMetadata(s) ==
  [title |-> s.title, composers |-> s.composers,
   duration_seconds |-> s.duration_seconds, transcriber |-> s.transcriber,
   parts |-> s.parts]

\* C21: once a scan has been interrupted, every Song has a SongFile and every
\* SongFile references a Song of the catalog; when the scan that follows on
\* the same file system completes, every SongFile path was enumerated, no
\* Song is without SongFile, the SongFile of every readable file carries the
\* modification time, hash and export timestamp of the file, and every Song
\* this scan created or updated has the metadata parsed from one of its
\* readable files, which is what a scan that was never interrupted stores.
C21_CrashRepair ==
  probe.op = "interrupted" =>
    /\ \A s \in Song : \E f \in SongFile : f.song_id = s.id
    /\ \A f \in SongFile : f.song_id \in SongIds
    /\ pc = "done" =>
         /\ \A f \in SongFile : f.file_path \in files
         /\ \A f \in SongFile :
              Readable(f.file_path) =>
                /\ f.file_mtime = Some(fs[f.file_path].mtime)
                /\ f.file_hash = Some(ContentHash(fs[f.file_path].content))
                /\ f.export_timestamp =
                     parse_abc_file(fs[f.file_path].content).export_timestamp
         /\ \A s \in Song :
              ( \/ s.id \notin {t.id : t \in startCat.Song}
                \/ \E f \in startCat.SongFile :
                     f.song_id = s.id /\ f.file_path \in files /\ Readable(f.file_path) )
                => \E f \in SongFile :
                     /\ f.song_id = s.id
                     /\ Readable(f.file_path)
                     /\ SongMetadata(s) =
                          Metadata(parse_abc_file(fs[f.file_path].content), Instrument)

\* A scan was interrupted after one file was committed, and the scan that
\* followed completed and cataloged a file the interrupted one had not
\* reached.
C21_Witness ==
  /\ probe.op = "interrupted"
  /\ probe.commits = 1
  /\ pc = "done"
  /\ \E f \in SongFile : f.file_path \notin probe.cataloged
  /\ Cardinality(SongFile) = 2

(***************************************************************************)
(* The branches of the loop of run_scan.                                   *)
(***************************************************************************)

\* C22: when the file at a path that has a SongFile parses, the iteration
\* overwrites title, composers, duration, transcriber and parts of the Song
\* of that SongFile and the modification time, hash, export timestamp and
\* flags of the SongFile with the values of this scan, leaves every other
\* Song and SongFile as it was, creates and re-attaches nothing, does not ask
\* the policy, and counts the file as scanned.
C22_UpdateInPlace ==
  [][\A p \in Paths :
       (Visits(p) /\ Readable(p) /\ HasSongFile(p)) =>
         LET row == CHOOSE f \in SongFile : f.file_path = p
             parsed == parse_abc_file(fs[p].content)
             zone == _classify_path(p, roots.library_roots, roots.set_roots,
                                    roots.exclude_paths)
         IN  /\ {t.id : t \in Song'} = SongIds
             /\ \A s \in Song : \E t \in Song' :
                  /\ t.id = s.id
                  /\ s.id # row.song_id => t = s
                  /\ s.id = row.song_id =>
                       /\ SongMetadata(t) = Metadata(parsed, Instrument')
                       /\ [t EXCEPT !.title = s.title, !.composers = s.composers,
                                    !.duration_seconds = s.duration_seconds,
                                    !.transcriber = s.transcriber,
                                    !.parts = s.parts] = s
             /\ Cardinality(SongFile') = Cardinality(SongFile)
             /\ \A g \in SongFile : \E h \in SongFile' :
                  /\ h.id = g.id /\ h.file_path = g.file_path /\ h.song_id = g.song_id
                  /\ g.id # row.id => h = g
                  /\ g.id = row.id =>
                       /\ h.file_mtime = Some(fs[p].mtime)
                       /\ h.file_hash = Some(ContentHash(fs[p].content))
                       /\ h.export_timestamp = parsed.export_timestamp
                       /\ h.is_primary_library = zone.is_primary
                       /\ h.is_set_copy = zone.is_set_copy
                       /\ h.scan_excluded = zone.scan_excluded
             /\ last'.d = NotAsked
             /\ consulted' = consulted
             /\ scanned' = scanned + 1 /\ errors' = errors
    ]_vars

\* A scan given a policy has updated a Song in place from a file whose title
\* and export timestamp had changed since the scan before.
C22_Witness ==
  /\ pc \in {"loop", "done"}
  /\ on_duplicate
  /\ last.branch = "update"
  /\ \E f \in SongFile : \E g \in startCat.SongFile : \E s \in Song : \E t \in startCat.Song :
       /\ f.file_path = last.path /\ g.id = f.id /\ g.file_path = f.file_path
       /\ s.id = f.song_id /\ t.id = s.id
       /\ s.title # t.title
       /\ f.export_timestamp # g.export_timestamp

\* Scans of libraries that differ in their files and their configuration
\* from the first run on: files under the export directory and under the
\* excluded directory, files with the same text, every combination of the
\* three settings.
LibraryPaths == Paths \cup {<<"M", "s", "d">>}

MaxStartFiles == 2

StartFiles ==
  UNION {[P -> [content : Contents, mtime : {0}, readable : {TRUE}]] :
           P \in {Q \in SUBSET LibraryPaths : Q # {} /\ Cardinality(Q) <= MaxStartFiles}}

LibraryInit ==
  /\ parsed_files = ParsedContents
  /\ fs \in StartFiles
  /\ cfg \in [lotro : BOOLEAN, set_export : BOOLEAN, exclude_old : BOOLEAN]
  /\ Song = {} /\ SongFile = {} /\ Instrument = {} /\ PlayLog = {}
  /\ SetlistItem = {} /\ SetlistBandAssignment = {}
  /\ SongLayout = {} /\ SongLayoutAssignment = {}
  /\ pc = "idle"
  /\ on_duplicate = FALSE
  /\ roots = get_enabled_roots(InitialConfig)
  /\ files = {} /\ idx = 0
  /\ scanned = 0 /\ errors = 0 /\ scanned_paths = {}
  /\ result = None
  /\ last = NoLast
  /\ consulted = FALSE
  /\ startCat = [Song |-> {}, SongFile |-> {}]
  /\ clean = FALSE /\ rescan = FALSE
  /\ scans = 0 /\ fsOps = 0 /\ userOps = 0
  /\ probe = NoProbe

SetSetExportDir ==
  /\ FsStep
  /\ cfg' = [cfg EXCEPT !.set_export = ~@]
  /\ UNCHANGED fs

LibraryNext ==
  \/ SetLotroRoot \/ SetExcludeRule \/ SetSetExportDir
  \/ StartScan \/ ScanFile \/ FinishScan

LibrarySpec == LibraryInit /\ [][LibraryNext]_vars

\* C23: in the iteration over a file that parses, the policy is asked if and
\* only if the path has no SongFile, the file is primary, a policy was given
\* and some Song has the logical identity of the file; it is then shown
\* exactly the Songs that have that identity, and they are at least one.
C23_PolicyInvocation ==
  [][\A p \in LibraryPaths :
       (Visits(p) /\ Readable(p)) =>
         LET matching == {S.id : S \in {T \in Song : SongIdentity(T) = FileIdentity(p)}}
         IN  /\ (last'.d # NotAsked) <=>
                  (~HasSongFile(p) /\ IsPrimary(p) /\ on_duplicate /\ matching # {})
             /\ (last'.d # NotAsked) =>
                  (last'.existing_ids = matching /\ matching # {})
    ]_vars

(***************************************************************************)
(* run_scan with a progress callback (lines 142-144): the callback is      *)
(* called at the head of each iteration.  probe holds what each call was   *)
(* given and how many files had been processed when it was made.           *)
(***************************************************************************)
NoCalls == [op |-> "progress", scan |-> 0, calls |-> <<>>]

\* The calls made in the running scan.
CallsOfScan == IF probe.scan = scans THEN probe.calls ELSE <<>>

ProgressInit == AppInit /\ probe = NoCalls

\* Lines 143-144: progress_callback(i + 1, total).
ProgressCallback ==
  /\ pc = "loop"
  /\ files # scanned_paths
  /\ Len(CallsOfScan) = idx
  /\ probe' = [probe EXCEPT
                 !.scan = scans,
                 !.calls = Append(CallsOfScan,
                             [done |-> idx + 1, total |-> Cardinality(files),
                              processed |-> Cardinality(scanned_paths)])]
  /\ UNCHANGED appVars

\* Lines 145-218: the rest of the iteration.
ScanFileAfterCallback == Len(CallsOfScan) = idx + 1 /\ ScanFile

ProgressNext == StartScan \/ ProgressCallback \/ ScanFileAfterCallback \/ FinishScan

ProgressSpec == ProgressInit /\ [][ProgressNext]_vars

\* C24: the k-th call of the progress callback in a scan is given done = k and
\* the number of enumerated files as total, and is made after the k-th file
\* has been processed, so that done is the number of files processed when it
\* is called; a scan that completes has made one call per enumerated file.
C24_ProgressAfterEachFile ==
  (probe.op = "progress" /\ pc \in {"loop", "done", "raised"}) =>
    /\ \A k \in 1..Len(CallsOfScan) :
         /\ CallsOfScan[k].done = k
         /\ CallsOfScan[k].total = Cardinality(files)
         /\ CallsOfScan[k].processed = CallsOfScan[k].done
    /\ pc = "done" => Len(CallsOfScan) = Cardinality(files)

(***************************************************************************)
(* _collect_abc_files, loop by loop.  A directory entry is the path rglob  *)
(* yields it under (found), the path it resolves to (resolved) and whether *)
(* it is a file; the tree is the entries in the order rglob yields them.   *)
(***************************************************************************)
MaxEntries == 3

Entry(found, resolved, is_file) ==
  [found |-> found, resolved |-> resolved, is_file |-> is_file]

\* Two files of the library, a link to the first, a file of the excluded
\* directory, a directory whose name ends in .abc and a file of the export
\* directory.
Entries ==
  {Entry(<<"M", "a">>, <<"M", "a">>, TRUE),
   Entry(<<"M", "l">>, <<"M", "a">>, TRUE),
   Entry(<<"M", "o", "c">>, <<"M", "o", "c">>, TRUE),
   Entry(<<"M", "o", "d">>, <<"M", "o", "d">>, FALSE),
   Entry(<<"M", "s", "d">>, <<"M", "s", "d">>, TRUE)}

\* The trees of at most n entries, each entry once.
TreesUpTo(n) ==
  {t \in UNION {[1..k -> Entries] : k \in 0..n} :
     \A i \in 1..Len(t), j \in 1..Len(t) : i # j => t[i] # t[j]}

CollectRoots == {MusicDir, OldDir, SetDir}

\* A plausible slip: the paths already seen are not skipped.
RECURSIVE RglobLoop_unseen(_, _, _, _)
RglobLoop_unseen(entries, k, exclude_paths, acc) ==
  IF k > Len(entries) THEN acc
  ELSE
    LET f == entries[k]
        path_str == f.resolved
    IN  IF _path_is_excluded(path_str, exclude_paths)
          THEN RglobLoop_unseen(entries, k + 1, exclude_paths, acc)
          ELSE IF FALSE
            THEN RglobLoop_unseen(entries, k + 1, exclude_paths, acc)
            ELSE RglobLoop_unseen(entries, k + 1, exclude_paths,
                   [seen |-> acc.seen \cup {path_str},
                    out |-> IF f.is_file THEN Append(acc.out, f.found) ELSE acc.out])

\* Lines 75-86: the files rglob yields under one root.
RECURSIVE RglobLoop(_, _, _, _)
RglobLoop(entries, k, exclude_paths, acc) ==
  IF k > Len(entries) THEN acc
  ELSE
    LET f == entries[k]
        path_str == f.resolved
    IN  IF _path_is_excluded(path_str, exclude_paths)
          THEN RglobLoop(entries, k + 1, exclude_paths, acc)
          ELSE IF path_str \in acc.seen
            THEN RglobLoop(entries, k + 1, exclude_paths, acc)
            ELSE RglobLoop(entries, k + 1, exclude_paths,
                   [seen |-> acc.seen \cup {path_str},
                    out |-> IF f.is_file THEN Append(acc.out, f.found) ELSE acc.out])

\* r.rglob("*.abc"): the entries found under root.
Rglob(tree, root) == SelectSeq(tree, LAMBDA f : _path_is_under(f.found, root))

\* Lines 70-74: the loop over the roots.
RECURSIVE RootsLoop(_, _, _, _, _)
RootsLoop(root_list, i, exclude_paths, tree, acc) ==
  IF i > Len(root_list) THEN acc
  ELSE RootsLoop(root_list, i + 1, exclude_paths, tree,
                 RglobLoop(Rglob(tree, root_list[i]), 1, exclude_paths, acc))

\* Lines 63-87, with the list of root_list and the list it returns.
CollectAbcFiles(root_list, exclude_paths, tree) ==
  RootsLoop(root_list, 1, exclude_paths, tree, [seen |-> {}, out |-> <<>>]).out

\* Line 145: str(path.resolve()) of a path of the list.
ResolveIn(tree, path) == (CHOOSE f \in {tree[k] : k \in 1..Len(tree)} : f.found = path).resolved

CollectInit ==
  /\ AppInit
  /\ probe \in [op : {"collect"},
                roots : UNION {[1..k -> CollectRoots] : k \in 0..MaxRoots},
                exclude_paths : SUBSET {OldDir, SetDir},
                tree : TreesUpTo(MaxEntries),
                out : {None}]

Collect ==
  /\ probe.op = "collect"
  /\ probe.out = None
  /\ probe' = [probe EXCEPT !.out =
                 Some(CollectAbcFiles(probe.roots, probe.exclude_paths, probe.tree))]
  /\ UNCHANGED appVars

CollectSpec == CollectInit /\ [][Collect]_vars

\* C25: the files one scan processes hold each resolved path at most once,
\* also when roots overlap, are listed twice or reach a file by two routes,
\* and hold no path that lies under an exclude path, so that none of them is
\* classified excluded; they are the files found under a root that are not
\* excluded, the set _collect_abc_files stands for in run_scan.
C25_Enumeration ==
  (probe.op = "collect" /\ probe.out # None) =>
    LET out == Get(probe.out)
        processed == [k \in 1..Len(out) |-> ResolveIn(probe.tree, out[k])]
        rootSet == {probe.roots[k] : k \in 1..Len(probe.roots)}
        onDisk == {probe.tree[k] : k \in 1..Len(probe.tree)}
        resolvedFiles == {f.resolved : f \in {g \in onDisk : g.is_file}}
    IN  /\ \A i \in 1..Len(out), j \in 1..Len(out) : i # j => processed[i] # processed[j]
        /\ \A k \in 1..Len(out) :
             /\ \A ex \in probe.exclude_paths : ~LiesUnder(processed[k], ex)
             /\ ~_classify_path(processed[k], rootSet, {SetDir} \cap probe.exclude_paths,
                                probe.exclude_paths).scan_excluded
        /\ {processed[k] : k \in 1..Len(out)}
             = _collect_abc_files(rootSet, probe.exclude_paths,
                                  [p \in resolvedFiles |-> TRUE])

\* The library root and a directory under it were both roots, a file was
\* reached directly and through a link, the old directory was excluded: the
\* file was listed once and the file of the old directory not at all.
C25_Witness ==
  /\ probe.op = "collect"
  /\ probe.out = Some(<<(<<"M", "l">>)>>)
  /\ probe.roots = <<MusicDir, OldDir>>
  /\ probe.exclude_paths = {OldDir}
  /\ probe.tree = <<Entry(<<"M", "l">>, <<"M", "a">>, TRUE),
                    Entry(<<"M", "o", "c">>, <<"M", "o", "c">>, TRUE),
                    Entry(<<"M", "a">>, <<"M", "a">>, TRUE)>>

(***************************************************************************)
(* parse_abc_content on repeated header lines.                             *)
(***************************************************************************)
HeaderLetters == {"T", "C", "Z"}

RepeatedValues == {<<>>, <<"A">>, <<"B">>}

RepeatedPool == {HeaderLine(l, v) : l \in HeaderLetters, v \in RepeatedValues}

ParseRepeatedInit ==
  /\ AppInit
  /\ probe \in [op : {"repeated"}, content : ContentsUpTo(RepeatedPool, MaxHeaderLines),
                out : {None}]

ParseRepeated ==
  /\ probe.op = "repeated"
  /\ probe.out = None
  /\ probe' = [probe EXCEPT !.out = Some(parse_abc_content(probe.content, None))]
  /\ UNCHANGED appVars

ParseRepeatedSpec == ParseRepeatedInit /\ [][ParseRepeated]_vars

\* The lines of content that are the first line of their header letter.
FirstOnly(content) ==
  LET later == {k \in 1..Len(content) :
                  \E j \in 1..(k - 1) : \E l \in HeaderLetters :
                    \E v \in RepeatedValues, w \in RepeatedValues :
                      content[j] = HeaderLine(l, v) /\ content[k] = HeaderLine(l, w)}
      F[k \in 0..Len(content)] ==
        IF k = 0 THEN <<>>
        ELSE IF k \in later THEN F[k - 1] ELSE Append(F[k - 1], content[k])
  IN  F[Len(content)]

\* C26: the title, composers and transcriber of a content without tags come
\* from the first T:, C: and Z: line alone, an empty first line giving
\* "Unknown" or no transcriber; the lines that follow the first line of their
\* letter change nothing in the parsed result.
C26_FirstHeaderWins ==
  (probe.op = "repeated" /\ probe.out # None) =>
    LET c == probe.content
        r == Get(probe.out)
        z == FirstHeaderIn(c, "Z")
    IN  /\ r.title = FirstNonEmpty(<<FirstHeaderIn(c, "T"), UnknownText>>)
        /\ r.composers = FirstNonEmpty(<<FirstHeaderIn(c, "C"), UnknownText>>)
        /\ r.transcriber = (IF z = <<>> THEN None ELSE Some(z))
        /\ r = parse_abc_content(FirstOnly(c), None)

\* A content whose first T: line is empty and whose first Z: line is followed
\* by another was parsed: the title is "Unknown", the transcriber the first.
C26_Witness ==
  /\ probe.op = "repeated"
  /\ probe.out # None
  /\ probe.content = <<HeaderLine("Z", <<"A">>), HeaderLine("T", <<>>),
                       HeaderLine("T", <<"B">>)>>
  /\ Get(probe.out).title = UnknownText
  /\ Get(probe.out).transcriber = Some(<<"A">>)

(***************************************************************************)
(* Reconciliation and the Songs whose files have moved.                    *)
(***************************************************************************)
\* The rows of table that belong to the Song with this id.
RowsOf(table, id) == {r \in table : r.song_id = id}

\* The SongFiles the running scan has attached to the Song with this id.
AttachedInScan(id) ==
  {f \in RowsOf(SongFile, id) : f.id \notin {g.id : g \in startCat.SongFile}}

\* None of the files the Song had when the scan started was enumerated.
FilesGone(id) ==
  /\ RowsOf(startCat.SongFile, id) # {}
  /\ \A f \in RowsOf(startCat.SongFile, id) : f.file_path \notin files

\* C27: nothing is removed from the catalog before the loop of run_scan is
\* over: while files are processed every Song and SongFile stays, and a Song
\* whose files are gone from disk is shown to the policy like any other Song
\* the lookup finds.  When such a Song has had a new file linked to it, the
\* reconciliation keeps the Song as it is, with its PlayLog, SetlistItem and
\* SongLayout rows and their assignments, and of its SongFiles only the ones
\* attached in this scan.
C27_ReconciliationLast ==
  [][ /\ pc' = "loop" =>
           /\ \A s \in Song : \E t \in Song' : t.id = s.id
           /\ \A f \in SongFile : \E g \in SongFile' : g.id = f.id /\ g.song_id = f.song_id
      /\ \A p \in Paths :
           (Visits(p) /\ Readable(p) /\ last'.d # NotAsked) =>
             \A S \in Song :
               (FilesGone(S.id)
                  /\ S.id \in find_song_by_logical_identity(Song, FileIdentity(p)))
                 => S.id \in last'.existing_ids
      /\ (pc = "loop" /\ Reconciles) =>
           \A S \in Song :
             (FilesGone(S.id) /\ AttachedInScan(S.id) # {}) =>
               /\ S \in Song'
               /\ RowsOf(PlayLog', S.id) = RowsOf(PlayLog, S.id)
               /\ RowsOf(SetlistItem', S.id) = RowsOf(SetlistItem, S.id)
               /\ RowsOf(SongLayout', S.id) = RowsOf(SongLayout, S.id)
               /\ \A a \in SetlistBandAssignment :
                    a.setlist_item_id \in {i.id : i \in RowsOf(SetlistItem, S.id)}
                      => a \in SetlistBandAssignment'
               /\ \A a \in SongLayoutAssignment :
                    a.song_layout_id \in {l.id : l \in RowsOf(SongLayout, S.id)}
                      => a \in SongLayoutAssignment'
               /\ RowsOf(SongFile', S.id) = AttachedInScan(S.id)
    ]_vars

\* A scan completed that kept a Song with a play in its history whose file
\* had moved: the file at the new path was linked to it and is its only
\* SongFile.
C27_Witness ==
  /\ pc = "done"
  /\ \E S \in Song :
       /\ S \in startCat.Song
       /\ FilesGone(S.id)
       /\ S.total_plays = 1
       /\ RowsOf(PlayLog, S.id) # {}
       /\ Cardinality(RowsOf(SongFile, S.id)) = 1
       /\ RowsOf(SongFile, S.id) = AttachedInScan(S.id)

(***************************************************************************)
(* The flags of the SongFiles.                                             *)
(***************************************************************************)

MaxUserData == 4

Ratings == {None, Some(3)}
TheNotes == Some("n")
TheStatus == Some(1)
TheLyrics == Some("l")

\* A library of one file.
UserDataFiles ==
  [q \in {<<"M", "a">>} |-> [content |-> 1, mtime |-> 0, readable |-> TRUE]]

UserDataInit ==
  /\ parsed_files = ParsedContents
  /\ fs = UserDataFiles
  /\ cfg = InitialConfig
  /\ Song = {} /\ SongFile = {} /\ Instrument = {} /\ PlayLog = {}
  /\ SetlistItem = {} /\ SetlistBandAssignment = {}
  /\ SongLayout = {} /\ SongLayoutAssignment = {}
  /\ pc = "idle"
  /\ on_duplicate = FALSE
  /\ roots = get_enabled_roots(InitialConfig)
  /\ files = {} /\ idx = 0
  /\ scanned = 0 /\ errors = 0 /\ scanned_paths = {}
  /\ result = None
  /\ last = NoLast
  /\ consulted = FALSE
  /\ startCat = [Song |-> {}, SongFile |-> {}]
  /\ clean = FALSE /\ rescan = FALSE
  /\ scans = 0 /\ fsOps = 0 /\ userOps = 0
  /\ probe = NoProbe

\* The four columns of the form are written to the Song of song_id.
update_song_app_metadata(songs, song_id, rating, status_id, notes, lyrics) ==
  {IF s.id = song_id
     THEN [s EXCEPT !.rating = rating, !.status_id = status_id,
                    !.notes = notes, !.lyrics = lyrics]
     ELSE s : s \in songs}

UserDataStep ==
  /\ Idle
  /\ scans < MaxScans
  /\ userOps < MaxUserData
  /\ userOps' = userOps + 1
  /\ ForgetScan
  /\ UNCHANGED <<fs, cfg, fsOps, SongFile, Instrument, probe, parsed_files>>

\* ui/song_detail.py: the Save button of the app metadata.
_save_app_metadata ==
  /\ UserDataStep
  /\ \E s \in Song, rating \in Ratings :
       Song' = update_song_app_metadata(Song, s.id, rating, TheStatus, TheNotes, TheLyrics)
  /\ UNCHANGED <<PlayLog, SetlistItem, SetlistBandAssignment, SongLayout,
                 SongLayoutAssignment>>

\* ui/library_view.py: "played now" on a row of the library.
_on_played_now ==
  /\ UserDataStep
  /\ \E s \in Song :
       LET r == log_play(Song, PlayLog, s.id, userOps + 1)
       IN  Song' = r.Song /\ PlayLog' = r.PlayLog
  /\ UNCHANGED <<SetlistItem, SetlistBandAssignment, SongLayout, SongLayoutAssignment>>

NewSongLayout ==
  /\ UserDataStep
  /\ \E s \in Song : SongLayout' = add_song_layout(SongLayout, s.id)
  /\ UNCHANGED <<Song, PlayLog, SetlistItem, SetlistBandAssignment, SongLayoutAssignment>>

NewSetlistItem ==
  /\ UserDataStep
  /\ \E s \in Song :
       \E l \in {None} \cup {Some(r.id) : r \in {q \in SongLayout : q.song_id = s.id}} :
         SetlistItem' = add_setlist_item(SetlistItem, s.id, l)
  /\ UNCHANGED <<Song, PlayLog, SetlistBandAssignment, SongLayout, SongLayoutAssignment>>

\* A cataloged file gets another text.
EditFile ==
  /\ FsStep
  /\ \E p \in DOMAIN fs : \E c \in Contents \ {fs[p].content} :
       fs' = [fs EXCEPT ![p] = [content |-> c, mtime |-> fsOps + 1, readable |-> TRUE]]
  /\ UNCHANGED cfg

UserDataNext ==
  \/ EditFile
  \/ _save_app_metadata
  \/ _on_played_now
  \/ NewSongLayout
  \/ NewSetlistItem
  \/ StartScan
  \/ ScanFile
  \/ FinishScan

UserDataSpec == UserDataInit /\ [][UserDataNext]_vars

\* The scan has handled a file of the Song with this id that was cataloged
\* before the scan began.
UpdatedInScan(id) ==
  \E f \in RowsOf(SongFile, id) :
    /\ f.file_path \in scanned_paths
    /\ f.id \in {g.id : g \in startCat.SongFile}

\* The columns of the Song that belong to the user, and its identity.
UserData(s) ==
  [id |-> s.id, rating |-> s.rating, status_id |-> s.status_id, notes |-> s.notes,
   lyrics |-> s.lyrics, last_played_at |-> s.last_played_at,
   total_plays |-> s.total_plays, created_at |-> s.created_at]

\* C29: the iteration of run_scan that updates a Song from a file that has a
\* SongFile leaves the id, rating, status, notes, lyrics, last-played time,
\* play counter and creation time of the Song as they were, and every
\* PlayLog, SetlistItem and SongLayout row as it was; the reconciliation that
\* ends the scan keeps every Song updated in the scan, with the same columns
\* and the same rows.
C29_UserDataKept ==
  [][ /\ \A p \in Paths :
           (Visits(p) /\ HasSongFile(p) /\ Readable(p)) =>
             LET row == CHOOSE f \in SongFile : f.file_path = p
             IN  /\ \A s \in {t \in Song : t.id = row.song_id} :
                       \E t \in Song' : UserData(t) = UserData(s)
                 /\ \E s \in Song : s.id = row.song_id
                 /\ PlayLog' = PlayLog
                 /\ SetlistItem' = SetlistItem
                 /\ SetlistBandAssignment' = SetlistBandAssignment
                 /\ SongLayout' = SongLayout
                 /\ SongLayoutAssignment' = SongLayoutAssignment
      /\ Reconciles =>
           \A s \in Song :
             UpdatedInScan(s.id) =>
               /\ s \in Song'
               /\ RowsOf(PlayLog', s.id) = RowsOf(PlayLog, s.id)
               /\ RowsOf(SetlistItem', s.id) = RowsOf(SetlistItem, s.id)
               /\ RowsOf(SongLayout', s.id) = RowsOf(SongLayout, s.id)
    ]_vars

\* The second scan has returned after it updated, from a rewritten file, a
\* Song the user had rated and annotated, played, given a layout and put on
\* a setlist: the title is new, the rest is there.
C29_Witness ==
  /\ pc = "done"
  /\ scans = 2
  /\ \E s \in Song : \E t \in startCat.Song :
       /\ t.id = s.id
       /\ s.title # t.title
       /\ UserData(s) = UserData(t)
       /\ s.rating = Some(3) /\ s.lyrics = TheLyrics
       /\ s.total_plays = 1 /\ s.last_played_at # None
       /\ RowsOf(PlayLog, s.id) # {}
       /\ RowsOf(SetlistItem, s.id) # {}
       /\ RowsOf(SongLayout, s.id) # {}

(***************************************************************************)
(* The play counters.  Between the scans the user plays Songs, enters      *)
(* plays of other times, and a file is removed.                            *)
(***************************************************************************)
\* A time before every call and a time after every call.
PlayTimes == {0, MaxUserData + 1}

\* A plausible slip: the time of the play entered last is taken for the
\* time of the last play.
log_play_at_stamps_last(songs, plays, song_id, played_at_iso) ==
  LET logged == plays \cup {[id |-> NextId(plays), song_id |-> song_id,
                              played_at |-> played_at_iso]}
      mine == {r \in logged : r.song_id = song_id}
  IN  [PlayLog |-> logged,
       Song |-> {IF s.id = song_id
                   THEN [s EXCEPT !.last_played_at = Some(played_at_iso),
                                  !.total_plays = Cardinality(mine)]
                   ELSE s : s \in songs}]

\* db/play_log.py: the play is stamped with the time the caller gives.
log_play_at(songs, plays, song_id, played_at_iso) ==
  LET logged == plays \cup {[id |-> NextId(plays), song_id |-> song_id,
                              played_at |-> played_at_iso]}
      mine == {r \in logged : r.song_id = song_id}
  IN  [PlayLog |-> logged,
       Song |-> {IF s.id = song_id
                   THEN [s EXCEPT !.last_played_at = Some(Max({r.played_at : r \in mine})),
                                  !.total_plays = Cardinality(mine)]
                   ELSE s : s \in songs}]

\* ui/library_view.py: "set last played" on a row of the library.
_on_set_play_time ==
  /\ UserDataStep
  /\ \E s \in Song, dt \in PlayTimes :
       LET r == log_play_at(Song, PlayLog, s.id, dt)
       IN  Song' = r.Song /\ PlayLog' = r.PlayLog
  /\ UNCHANGED <<SetlistItem, SetlistBandAssignment, SongLayout, SongLayoutAssignment>>

PlayNext ==
  \/ RemoveFile
  \/ _on_played_now
  \/ _on_set_play_time
  \/ StartScan
  \/ ScanFile
  \/ FinishScan

PlaySpec == Init /\ [][PlayNext]_vars

PlayedAt(id) == {r.played_at : r \in RowsOf(PlayLog, id)}

\* C30: in every state every Song has total_plays equal to the number of its
\* PlayLog rows and last_played_at equal to the greatest played_at of these
\* rows, absent when there is none, and every PlayLog row has the id of a
\* Song of the catalog.
C30_CountersMatchHistory ==
  /\ \A s \in Song :
       /\ s.total_plays = Cardinality(RowsOf(PlayLog, s.id))
       /\ s.last_played_at = IF PlayedAt(s.id) = {} THEN None
                                                     ELSE Some(Max(PlayedAt(s.id)))
  /\ \A r \in PlayLog : r.song_id \in SongIds

\* The second scan has returned and has removed a Song that had been played,
\* and a Song that is left has two plays of which the one entered last is
\* the earlier.
C30_Witness ==
  /\ pc = "done"
  /\ scans = 2
  /\ \E t \in startCat.Song : t.total_plays > 0 /\ t.id \notin SongIds
  /\ \E s \in Song :
       /\ s.total_plays = 2
       /\ \E r \in RowsOf(PlayLog, s.id) : \E q \in RowsOf(PlayLog, s.id) :
            r.id > q.id /\ r.played_at < q.played_at
       /\ s.last_played_at # None

====
